---- MODULE Spec2Model ----
(***************************************************************************)
(* CoherenceCore desktop backend (src-tauri/src/lib.rs): the session       *)
(* supervisor, its safety timer threads, the shared audio parameters, the  *)
(* audio configuration and the output stream, as a state machine.          *)
(*                                                                         *)
(* Granularity.  A block that runs under one mutex guard and touches only  *)
(* the data that mutex protects is one step.  Every other statement that   *)
(* touches shared state (an atomic store or load, thread::spawn) is a step *)
(* of its own, so every interleaving of the control threads, the timer     *)
(* threads and the audio callback at the level of those statements is a    *)
(* behaviour of the model.                                                 *)
(*                                                                         *)
(* Time.  `now` is the wall clock read by now_ms().  Commands and timer    *)
(* iterations take no time; thread::sleep(1 s) lasts exactly TICK_MS.      *)
(* Time passes (Advance) only while every control thread is between        *)
(* commands and every live timer thread is asleep, and it never passes a   *)
(* wake-up at which a timer thread would do something other than go back   *)
(* to sleep.                                                               *)
(***************************************************************************)
EXTENDS Integers, Sequences, FiniteSets, TLC

VARIABLES
    now,            \* wall clock, ms                         (now_ms)
    session,        \* AppState.session: Mutex<SessionState>
    audio_params,   \* AppState.audio_params: AudioParams
    audio_stream,   \* AppState.audio_stream: Mutex<Option<Stream>>
    audio_config,   \* AppState.audio_config: Mutex<AudioConfig>
    config_guard,   \* the control thread holding the audio_config mutex across steps
    timer_handle,   \* AppState.timer_handle: Mutex<Option<JoinHandle>>
    timer_running,  \* AppState.timer_running: AtomicBool
    timers,         \* the safety timer threads spawned by start_session
    output,         \* what the stream's last callback wrote to its buffer
    pc,             \* position of each control thread inside its command
    local,          \* the local value a control thread carries between steps
    last,           \* what each control thread's last completed command returned
    cmds,           \* number of commands issued so far
    playing_since,  \* when audio_params.is_playing last went from false to true
    cutoffs,        \* number of cutoff updates of the session made by timer threads
    mark            \* `cutoffs` when each control thread's start_session last
                    \* read or wrote the session

engine == <<session, audio_params, audio_stream, audio_config, config_guard,
            timer_handle, timer_running>>
control == <<pc, local, last, cmds>>
history == <<playing_since, cutoffs, mark>>
vars == <<now, engine, timers, output, control, history>>

----------------------------------------------------------------------------
\* Bounds of the model

MaxTimers == 2
MaxCmds == 3
MaxNow == 1802000

\* Program constants

MAX_SESSION_DURATION_MS == 15 * 60 * 1000
TICK_MS == 1000

\* Option<T>
None == <<>>
Some(v) == <<v>>
Unwrap(o) == o[1]

\* The control threads that issue commands.
Threads == {1, 2}
TimerIds == 1..MaxTimers

\* u64::saturating_sub
SaturatingSub(a, b) == IF a >= b THEN a - b ELSE 0

\* f32 values are held in thousandths (40.0 Hz is 40000, amplitude 0.5 is 500).
DefaultSession ==
    [ is_playing |-> FALSE,
      current_frequency_hz |-> 40000,
      amplitude |-> 500,
      waveform |-> "sine",
      session_start_ms |-> None,
      elapsed_ms |-> 0,
      remaining_ms |-> MAX_SESSION_DURATION_MS ]

NewAudioParams ==
    [ frequency_hz |-> 40000,
      amplitude |-> 500,
      waveform |-> "Sine",
      is_playing |-> FALSE ]

DefaultAudioConfig ==
    [ device_id |-> None,
      sample_rate |-> 44100,
      buffer_size |-> 512 ]

\* A timer slot: the thread's position, its next wake-up while it sleeps, and
\* when a stop_session call first returned while it was alive.
NoTimer == [pc |-> "none", wake |-> 0, stopped |-> None]

Init ==
    /\ now = 0
    /\ session = DefaultSession
    /\ audio_params = NewAudioParams
    /\ audio_stream = None
    /\ audio_config = DefaultAudioConfig
    /\ config_guard = None
    /\ timer_handle = None
    /\ timer_running = FALSE
    /\ timers = [i \in TimerIds |-> NoTimer]
    /\ output = "none"
    /\ pc = [t \in Threads |-> "idle"]
    /\ local = [t \in Threads |-> None]
    /\ last = [t \in Threads |-> "none"]
    /\ cmds = 0
    /\ playing_since = None
    /\ cutoffs = 0
    /\ mark = [t \in Threads |-> 0]

----------------------------------------------------------------------------
\* Helpers over the timer threads and the control threads

Alive(i) == timers[i].pc # "none"
AliveTimers == {i \in TimerIds : Alive(i)}
Asleep(i) == timers[i].pc = "sleep" /\ timers[i].wake > now
StartPcs == {"start_stream", "start_enable", "start_state", "start_flag",
             "start_spawn", "start_handle"}
Starting == {t \in Threads : pc[t] \in StartPcs}
FreeSlot == CHOOSE i \in TimerIds : ~Alive(i) /\ \A j \in TimerIds : j < i => Alive(j)

\* The instants at which the environment issues commands: the start of the
\* run and MAX_SESSION_DURATION_MS later, and half a tick after each.
Offsets == {0, 500}
Instants == {k * MAX_SESSION_DURATION_MS + o : k \in 0..1, o \in Offsets}

\* Control thread t is between commands and may issue one.
Ready(t) == pc[t] = "idle" /\ now \in Instants /\ cmds < MaxCmds

\* Control thread t enters a command and moves to `label` inside it.
Enter(t, label) ==
    /\ pc' = [pc EXCEPT ![t] = label]
    /\ cmds' = cmds + 1
    /\ UNCHANGED last

\* Control thread t moves on inside its command.
Goto(t, label) ==
    /\ pc' = [pc EXCEPT ![t] = label]
    /\ UNCHANGED <<last, cmds>>

\* Control thread t returns `result` from the command it is in.
Return(t, result) ==
    /\ pc' = [pc EXCEPT ![t] = "idle"]
    /\ last' = [last EXCEPT ![t] = result]
    /\ UNCHANGED cmds

\* A command that is one step: enter and return.
Call(t, result) ==
    /\ pc' = pc
    /\ last' = [last EXCEPT ![t] = result]
    /\ cmds' = cmds + 1

\* audio_params.is_playing.store(b)
StorePlaying(b) ==
    /\ audio_params' = [audio_params EXCEPT !.is_playing = b]
    /\ playing_since' = IF ~b THEN None
                        ELSE IF audio_params.is_playing THEN playing_since
                        ELSE Some(now)

----------------------------------------------------------------------------
\* start_session

\* Fault injection: start_session without its already-playing check.
StartCheckAlways(t) ==
    /\ Ready(t)
    /\ Cardinality(AliveTimers) + Cardinality(Starting) < MaxTimers
    /\ Enter(t, "start_stream")
    /\ UNCHANGED <<now, engine, timers, output, local, history>>

\* lib.rs 357-363: the already-playing check under the session lock.  (A
\* call that goes on to spawn a timer thread needs a free slot of the model.)
StartCheck(t) ==
    /\ Ready(t)
    /\ IF session.is_playing
          THEN /\ Call(t, "start_noop")
               /\ mark' = [mark EXCEPT ![t] = cutoffs]
          ELSE /\ Cardinality(AliveTimers) + Cardinality(Starting) < MaxTimers
               /\ Enter(t, "start_stream")
               /\ UNCHANGED mark
    /\ UNCHANGED <<now, engine, timers, output, local, playing_since, cutoffs>>

\* The stream create_audio_stream builds (lib.rs 215-266): the default
\* host's default output device, with the device's default output config;
\* the callback's phase increment uses that config's sample rate.
DefaultStream == [device |-> "default", phase_rate |-> "native"]

\* lib.rs 365-373: under the stream lock, build and play a stream when the
\* slot is empty.  create_audio_stream or Stream::play may fail: `?` returns
\* the error with the slot still empty.
\* Fault injection: a failed start_session leaving the stream it built in the
\* slot.
StartStreamFailsLate(t) ==
    /\ pc[t] = "start_stream"
    /\ \/ /\ audio_stream # None
          /\ UNCHANGED audio_stream
          /\ Goto(t, "start_enable")
       \/ /\ audio_stream = None
          /\ audio_stream' = Some(DefaultStream)
          /\ Goto(t, "start_enable")
       \/ /\ audio_stream = None
          /\ audio_stream' = Some(DefaultStream)
          /\ Return(t, "start_err")
    /\ UNCHANGED <<now, session, audio_params, audio_config, config_guard,
                   timer_handle, timer_running, timers, output, local,
                   history>>

\* Fault injection: start_session opening a stream whether or not one is
\* held.
StartStreamReopens(t) ==
    /\ pc[t] = "start_stream"
    /\ \/ /\ audio_stream' = Some(DefaultStream)
          /\ Goto(t, "start_enable")
       \/ /\ audio_stream = None
          /\ UNCHANGED audio_stream
          /\ Return(t, "start_err")
    /\ UNCHANGED <<now, session, audio_params, audio_config, config_guard,
                   timer_handle, timer_running, timers, output, local,
                   history>>

StartStream(t) ==
    /\ pc[t] = "start_stream"
    /\ \/ /\ audio_stream # None
          /\ UNCHANGED audio_stream
          /\ Goto(t, "start_enable")
       \/ /\ audio_stream = None
          /\ audio_stream' = Some(DefaultStream)
          /\ Goto(t, "start_enable")
       \/ /\ audio_stream = None
          /\ UNCHANGED audio_stream
          /\ Return(t, "start_err")
    /\ UNCHANGED <<now, session, audio_params, audio_config, config_guard,
                   timer_handle, timer_running, timers, output, local,
                   history>>

\* lib.rs 376: audio_params.is_playing.store(true)
StartEnable(t) ==
    /\ pc[t] = "start_enable"
    /\ StorePlaying(TRUE)
    /\ Goto(t, "start_state")
    /\ UNCHANGED <<now, session, audio_stream, audio_config, config_guard,
                   timer_handle, timer_running, timers, output, local, cutoffs, mark>>

\* Fault injection: the session update of start_session without
\* is_playing = true.
StartStateNoFlag(t) ==
    /\ pc[t] = "start_state"
    /\ session' = [session EXCEPT !.session_start_ms = Some(now),
                                  !.elapsed_ms = 0,
                                  !.remaining_ms = MAX_SESSION_DURATION_MS]
    /\ mark' = [mark EXCEPT ![t] = cutoffs]
    /\ Goto(t, "start_flag")
    /\ UNCHANGED <<now, audio_params, audio_stream, audio_config, config_guard,
                   timer_handle, timer_running, timers, output, local,
                   playing_since, cutoffs>>

\* lib.rs 379-386: start_time = now_ms(), then the session update under the lock.
StartState(t) ==
    /\ pc[t] = "start_state"
    /\ session' = [session EXCEPT !.is_playing = TRUE,
                                  !.session_start_ms = Some(now),
                                  !.elapsed_ms = 0,
                                  !.remaining_ms = MAX_SESSION_DURATION_MS]
    /\ mark' = [mark EXCEPT ![t] = cutoffs]
    /\ Goto(t, "start_flag")
    /\ UNCHANGED <<now, audio_params, audio_stream, audio_config, config_guard,
                   timer_handle, timer_running, timers, output, local,
                   playing_since, cutoffs>>

\* lib.rs 389: timer_running.store(true)
StartFlag(t) ==
    /\ pc[t] = "start_flag"
    /\ timer_running' = TRUE
    /\ Goto(t, "start_spawn")
    /\ UNCHANGED <<now, session, audio_params, audio_stream, audio_config,
                   config_guard, timer_handle, timers, output, local,
                   history>>

\* lib.rs 394: thread::spawn of the safety timer; the new thread is at the
\* head of its while loop.
StartSpawn(t) ==
    /\ pc[t] = "start_spawn"
    /\ timers' = [timers EXCEPT ![FreeSlot] =
                     [pc |-> "loop", wake |-> 0, stopped |-> None]]
    /\ local' = [local EXCEPT ![t] = Some(FreeSlot)]
    /\ Goto(t, "start_handle")
    /\ UNCHANGED <<now, engine, output, history>>

\* lib.rs 429-436: store the join handle (the previous one, if any, is
\* dropped, which detaches its thread) and return Ok.
StartHandle(t) ==
    /\ pc[t] = "start_handle"
    /\ timer_handle' = local[t]
    /\ local' = [local EXCEPT ![t] = None]
    /\ Return(t, "start_ok")
    /\ UNCHANGED <<now, session, audio_params, audio_stream, audio_config,
                   config_guard, timer_running, timers, output, history>>

----------------------------------------------------------------------------
\* stop_session

\* lib.rs 443: timer_running.store(false)
StopFlag(t) ==
    /\ Ready(t)
    /\ timer_running' = FALSE
    /\ Enter(t, "stop_audio")
    /\ UNCHANGED <<now, session, audio_params, audio_stream, audio_config,
                   config_guard, timer_handle, timers, output, local,
                   history>>

\* lib.rs 446: audio_params.is_playing.store(false)
StopAudio(t) ==
    /\ pc[t] = "stop_audio"
    /\ StorePlaying(FALSE)
    /\ Goto(t, "stop_state")
    /\ UNCHANGED <<now, session, audio_stream, audio_config, config_guard,
                   timer_handle, timer_running, timers, output, local, cutoffs, mark>>

\* Fault injection: stop_session resetting the whole session to its default.
StopStateResets(t) ==
    /\ pc[t] = "stop_state"
    /\ session' = DefaultSession
    /\ Goto(t, "stop_handle")
    /\ UNCHANGED <<now, audio_params, audio_stream, audio_config, config_guard,
                   timer_handle, timer_running, timers, output, local,
                   history>>

\* lib.rs 449-454: the session update under the lock (elapsed_ms is not written).
StopState(t) ==
    /\ pc[t] = "stop_state"
    /\ session' = [session EXCEPT !.is_playing = FALSE,
                                  !.session_start_ms = None,
                                  !.remaining_ms = MAX_SESSION_DURATION_MS]
    /\ Goto(t, "stop_handle")
    /\ UNCHANGED <<now, audio_params, audio_stream, audio_config, config_guard,
                   timer_handle, timer_running, timers, output, local,
                   history>>

\* lib.rs 457-466: take and drop the join handle without joining; return Ok.
\* `stopped` notes, on every timer thread alive at this moment, when the
\* stop_session call returned.
StopHandle(t) ==
    /\ pc[t] = "stop_handle"
    /\ timer_handle' = None
    /\ timers' = [i \in TimerIds |->
                    IF Alive(i) /\ timers[i].stopped = None
                       THEN [timers[i] EXCEPT !.stopped = Some(now)]
                       ELSE timers[i]]
    /\ Return(t, "stop_ok")
    /\ UNCHANGED <<now, session, audio_params, audio_stream, audio_config,
                   config_guard, timer_running, output, local, history>>

----------------------------------------------------------------------------
\* get_session_state, lib.rs 278-291: one block under the session lock.

\* Fault injection: the refresh without the is_playing test, counting from 0
\* when there is no start time.
RefreshedAlways(s, t_now) ==
    LET start == IF s.session_start_ms # None THEN Unwrap(s.session_start_ms) ELSE 0
        e == SaturatingSub(t_now, start)
    IN [s EXCEPT !.elapsed_ms = e,
                 !.remaining_ms = SaturatingSub(MAX_SESSION_DURATION_MS, e)]

Refreshed(s, t_now) ==
    IF s.is_playing /\ s.session_start_ms # None
       THEN LET e == SaturatingSub(t_now, Unwrap(s.session_start_ms))
            IN [s EXCEPT !.elapsed_ms = e,
                         !.remaining_ms = SaturatingSub(MAX_SESSION_DURATION_MS, e)]
       ELSE s

GetSessionState(t) ==
    /\ Ready(t)
    /\ session' = Refreshed(session, now)
    /\ Call(t, IF session'.is_playing THEN "get_playing" ELSE "get_stopped")
    /\ UNCHANGED <<now, audio_params, audio_stream, audio_config, config_guard,
                   timer_handle, timer_running, timers, output, local,
                   history>>

----------------------------------------------------------------------------
\* set_frequency, set_amplitude, set_waveform

\* The arguments the environment passes (f32 in thousandths).
FreqInputs == {500, 1000, 61000}
AmpInputs == {-100, 300, 1500}
WaveformInputs == {"sine", "SQUARE", "noise"}

MAX_AMPLITUDE == 800

\* Fault injection: the range test of set_frequency with the bounds excluded.
SetFrequencyExclusive(t, hz) ==
    /\ Ready(t)
    /\ IF hz <= 1000 \/ hz >= 60000
          THEN /\ Call(t, "set_frequency_err")
               /\ UNCHANGED <<session, local>>
          ELSE /\ session' = [session EXCEPT !.current_frequency_hz = hz]
               /\ local' = [local EXCEPT ![t] = Some(hz)]
               /\ Enter(t, "frequency_params")
    /\ UNCHANGED <<now, audio_params, audio_stream, audio_config, config_guard,
                   timer_handle, timer_running, timers, output, history>>

\* Fault injection: set_frequency writing the session before its range test.
SetFrequencyWritesFirst(t, hz) ==
    /\ Ready(t)
    /\ session' = [session EXCEPT !.current_frequency_hz = hz]
    /\ IF hz < 1000 \/ hz > 60000
          THEN /\ Call(t, "set_frequency_err")
               /\ UNCHANGED local
          ELSE /\ local' = [local EXCEPT ![t] = Some(hz)]
               /\ Enter(t, "frequency_params")
    /\ UNCHANGED <<now, audio_params, audio_stream, audio_config, config_guard,
                   timer_handle, timer_running, timers, output, history>>

\* lib.rs 295-304: the range check, then the session update under the lock.
SetFrequency(t, hz) ==
    /\ Ready(t)
    /\ IF hz < 1000 \/ hz > 60000
          THEN /\ Call(t, "set_frequency_err")
               /\ UNCHANGED <<session, local>>
          ELSE /\ session' = [session EXCEPT !.current_frequency_hz = hz]
               /\ local' = [local EXCEPT ![t] = Some(hz)]
               /\ Enter(t, "frequency_params")
    /\ UNCHANGED <<now, audio_params, audio_stream, audio_config, config_guard,
                   timer_handle, timer_running, timers, output, history>>

\* lib.rs 307-309: audio_params.set_frequency, an atomic store; return Ok.
SetFrequencyParams(t) ==
    /\ pc[t] = "frequency_params"
    /\ audio_params' = [audio_params EXCEPT !.frequency_hz = Unwrap(local[t])]
    /\ local' = [local EXCEPT ![t] = None]
    /\ Return(t, "set_frequency_ok")
    /\ UNCHANGED <<now, session, audio_stream, audio_config, config_guard,
                   timer_handle, timer_running, timers, output, history>>

\* f32::min, f32::max on the values of the model
Min(a, b) == IF a <= b THEN a ELSE b
Max(a, b) == IF a >= b THEN a ELSE b

\* Fault injection: set_amplitude clamping from above only.
SetAmplitudeUpperOnly(t, amplitude) ==
    /\ Ready(t)
    /\ LET safe_amplitude == Min(amplitude, MAX_AMPLITUDE)
       IN /\ session' = [session EXCEPT !.amplitude = safe_amplitude]
          /\ local' = [local EXCEPT ![t] = Some(safe_amplitude)]
    /\ Enter(t, "amplitude_params")
    /\ UNCHANGED <<now, audio_params, audio_stream, audio_config, config_guard,
                   timer_handle, timer_running, timers, output, history>>

\* lib.rs 315-321: clamp, then the session update under the lock.
SetAmplitude(t, amplitude) ==
    /\ Ready(t)
    /\ LET safe_amplitude == Max(Min(amplitude, MAX_AMPLITUDE), 0)
       IN /\ session' = [session EXCEPT !.amplitude = safe_amplitude]
          /\ local' = [local EXCEPT ![t] = Some(safe_amplitude)]
    /\ Enter(t, "amplitude_params")
    /\ UNCHANGED <<now, audio_params, audio_stream, audio_config, config_guard,
                   timer_handle, timer_running, timers, output, history>>

\* lib.rs 324-326: audio_params.set_amplitude, an atomic store; return Ok.
SetAmplitudeParams(t) ==
    /\ pc[t] = "amplitude_params"
    /\ audio_params' = [audio_params EXCEPT !.amplitude = Unwrap(local[t])]
    /\ local' = [local EXCEPT ![t] = None]
    /\ Return(t, "set_amplitude_ok")
    /\ UNCHANGED <<now, session, audio_stream, audio_config, config_guard,
                   timer_handle, timer_running, timers, output, history>>

\* str::to_lowercase on the names the environment passes
ToLowercase(s) ==
    CASE s = "SQUARE" -> "square"
      [] s = "Sine" -> "sine"
      [] s = "SawTooth" -> "sawtooth"
      [] s = "Noise" -> "noise"
      [] OTHER -> s

\* Fault injection: from_str matching the names without lowering their case.
FromStrExact(s) ==
    CASE s = "sine" -> Some("Sine")
      [] s = "square" -> Some("Square")
      [] s = "triangle" -> Some("Triangle")
      [] s = "sawtooth" -> Some("Sawtooth")
      [] OTHER -> None

\* lib.rs 41-53: WaveformType::from_str
FromStr(s) ==
    LET l == ToLowercase(s)
    IN CASE l = "sine" -> Some("Sine")
         [] l = "square" -> Some("Square")
         [] l = "triangle" -> Some("Triangle")
         [] l = "sawtooth" -> Some("Sawtooth")
         [] OTHER -> None

\* lib.rs 332-340: parse, then the session update under the lock (the
\* session keeps the string as it was passed).
SetWaveform(t, waveform) ==
    /\ Ready(t)
    /\ IF FromStr(waveform) = None
          THEN /\ Call(t, "set_waveform_err")
               /\ UNCHANGED <<session, local>>
          ELSE /\ session' = [session EXCEPT !.waveform = waveform]
               /\ local' = [local EXCEPT ![t] = FromStr(waveform)]
               /\ Enter(t, "waveform_params")
    /\ UNCHANGED <<now, audio_params, audio_stream, audio_config, config_guard,
                   timer_handle, timer_running, timers, output, history>>

\* lib.rs 343-348: the store under the waveform lock; return Ok.
SetWaveformParams(t) ==
    /\ pc[t] = "waveform_params"
    /\ audio_params' = [audio_params EXCEPT !.waveform = Unwrap(local[t])]
    /\ local' = [local EXCEPT ![t] = None]
    /\ Return(t, "set_waveform_ok")
    /\ UNCHANGED <<now, session, audio_stream, audio_config, config_guard,
                   timer_handle, timer_running, timers, output, history>>

----------------------------------------------------------------------------
\* get_audio_config, set_audio_config

\* lib.rs 678-681
GetAudioConfig(t) ==
    /\ Ready(t)
    /\ config_guard = None
    /\ Call(t, "get_config")
    /\ UNCHANGED <<now, engine, timers, output, local, history>>

\* The arguments the environment passes.
DeviceInputs == {None, Some("ALSA:hw:0"), Some("ALSA:NonexistentCard")}
RateInputs == {None, Some(48000), Some(44123)}
SizeInputs == {None, Some(1000)}

\* The ids of the output devices present (host name, ':', device name).
OutputDevices == {"ALSA:default", "ALSA:hw:0"}

\* lib.rs 693
SampleRates == {44100, 48000, 88200, 96000, 176400, 192000}

\* u32 bitwise and
RECURSIVE BitAnd(_, _)
BitAnd(a, b) ==
    IF a = 0 \/ b = 0 THEN 0
    ELSE (a % 2) * (b % 2) + 2 * BitAnd(a \div 2, b \div 2)

\* lib.rs 700: `||` evaluates size & (size - 1) only when both range tests
\* are false; the u32 subtraction underflows when it is evaluated on 0.
SubUnderflows(size) == ~(size < 32) /\ ~(size > 8192) /\ size - 1 < 0

\* Fault injection: the buffer-size test without its power-of-two part.
BadBufferSizeRangeOnly(size) == size < 32 \/ size > 8192

\* lib.rs 700
BadBufferSize(size) == size < 32 \/ size > 8192 \/ BitAnd(size, size - 1) # 0

\* Fault injection: set_audio_config storing the device id before it
\* validates the other arguments.
SetAudioConfigDeviceFirst(t, device_id, sample_rate, buffer_size) ==
    /\ Ready(t)
    /\ config_guard = None
    /\ IF \/ sample_rate # None /\ Unwrap(sample_rate) \notin SampleRates
          \/ buffer_size # None /\ BadBufferSize(Unwrap(buffer_size))
          THEN /\ Call(t, "set_config_err")
               /\ audio_config' =
                    [audio_config EXCEPT !.device_id =
                        IF device_id # None THEN device_id ELSE @]
          ELSE /\ audio_config' =
                    [ device_id |-> IF device_id # None THEN device_id
                                    ELSE audio_config.device_id,
                      sample_rate |-> IF sample_rate # None THEN Unwrap(sample_rate)
                                      ELSE audio_config.sample_rate,
                      buffer_size |-> IF buffer_size # None THEN Unwrap(buffer_size)
                                      ELSE audio_config.buffer_size ]
               /\ Enter(t, "config_read")
    /\ UNCHANGED <<now, session, audio_params, audio_stream, config_guard,
                   timer_handle, timer_running, timers, output, local,
                   history>>

\* lib.rs 691-717: validate, then update the config under its lock.
SetAudioConfig(t, device_id, sample_rate, buffer_size) ==
    /\ Ready(t)
    /\ IF sample_rate # None /\ Unwrap(sample_rate) \notin SampleRates
          THEN /\ Call(t, "set_config_err")
               /\ UNCHANGED audio_config
          ELSE IF buffer_size # None /\ SubUnderflows(Unwrap(buffer_size))
          THEN /\ Call(t, "set_config_panic")
               /\ UNCHANGED audio_config
          ELSE IF buffer_size # None /\ BadBufferSize(Unwrap(buffer_size))
          THEN /\ Call(t, "set_config_err")
               /\ UNCHANGED audio_config
          ELSE /\ config_guard = None
               /\ audio_config' =
                    [ device_id |-> IF device_id # None THEN device_id
                                    ELSE audio_config.device_id,
                      sample_rate |-> IF sample_rate # None THEN Unwrap(sample_rate)
                                      ELSE audio_config.sample_rate,
                      buffer_size |-> IF buffer_size # None THEN Unwrap(buffer_size)
                                      ELSE audio_config.buffer_size ]
               /\ Enter(t, "config_read")
    /\ UNCHANGED <<now, session, audio_params, audio_stream, config_guard,
                   timer_handle, timer_running, timers, output, local,
                   history>>

\* lib.rs 720-721: audio_params.is_playing.load(); when false return Ok.
SetAudioConfigRead(t) ==
    /\ pc[t] = "config_read"
    /\ IF audio_params.is_playing
          THEN Goto(t, "config_take")
          ELSE Return(t, "set_config_ok")
    /\ UNCHANGED <<now, engine, timers, output, local, history>>

\* lib.rs 723-728: take and drop the current stream under the stream lock.
SetAudioConfigTake(t) ==
    /\ pc[t] = "config_take"
    /\ audio_stream' = None
    /\ Goto(t, "config_create")
    /\ UNCHANGED <<now, session, audio_params, audio_config, config_guard,
                   timer_handle, timer_running, timers, output, local,
                   history>>

\* lib.rs 754-782: the device a config selects, None when its id matches no
\* output device.
ResolveDevice(config) ==
    IF config.device_id = None THEN Some("default")
    ELSE IF Unwrap(config.device_id) \in OutputDevices THEN config.device_id
    ELSE None

\* Fault injection: a failed open that leaves the stream it was building
\* with the caller.
SetAudioConfigCreateLeaks(t) ==
    /\ pc[t] = "config_create"
    /\ config_guard = None
    /\ \/ /\ ResolveDevice(audio_config) # None
          /\ local' = [local EXCEPT ![t] =
                          Some([device |-> Unwrap(ResolveDevice(audio_config)),
                                phase_rate |-> audio_config.sample_rate])]
          /\ config_guard' = Some(t)
          /\ Goto(t, "config_store")
       \/ /\ local' = [local EXCEPT ![t] =
                          Some([device |-> "default",
                                phase_rate |-> audio_config.sample_rate])]
          /\ UNCHANGED config_guard
          /\ Return(t, "set_config_err")
    /\ UNCHANGED <<now, session, audio_params, audio_stream, audio_config,
                   timer_handle, timer_running, timers, output, history>>

\* lib.rs 731-736: take the config lock, build and play the new stream.
\* create_audio_stream_with_config fails when the device is not found, and
\* it or Stream::play may fail otherwise: `?` returns the error, releasing
\* the config lock, with the stream slot empty.  The callback's phase
\* increment uses config.sample_rate (lib.rs 791, 805).
SetAudioConfigCreate(t) ==
    /\ pc[t] = "config_create"
    /\ config_guard = None
    /\ \/ /\ ResolveDevice(audio_config) # None
          /\ local' = [local EXCEPT ![t] =
                          Some([device |-> Unwrap(ResolveDevice(audio_config)),
                                phase_rate |-> audio_config.sample_rate])]
          /\ config_guard' = Some(t)
          /\ Goto(t, "config_store")
       \/ /\ UNCHANGED <<local, config_guard>>
          /\ Return(t, "set_config_err")
    /\ UNCHANGED <<now, session, audio_params, audio_stream, audio_config,
                   timer_handle, timer_running, timers, output, history>>

\* Fault injection: set_audio_config switching playback on with the new stream.
SetAudioConfigStoreResumes(t) ==
    /\ pc[t] = "config_store"
    /\ audio_stream' = local[t]
    /\ local' = [local EXCEPT ![t] = None]
    /\ config_guard' = None
    /\ StorePlaying(TRUE)
    /\ Return(t, "set_config_ok")
    /\ UNCHANGED <<now, session, audio_config, timer_handle, timer_running,
                   timers, output, cutoffs, mark>>

\* lib.rs 738-743: store the new stream under the stream lock; the config
\* lock is released on return.
SetAudioConfigStore(t) ==
    /\ pc[t] = "config_store"
    /\ audio_stream' = local[t]
    /\ local' = [local EXCEPT ![t] = None]
    /\ config_guard' = None
    /\ Return(t, "set_config_ok")
    /\ UNCHANGED <<now, session, audio_params, audio_config, timer_handle,
                   timer_running, timers, output, history>>

----------------------------------------------------------------------------
\* The audio callback of the held stream, lib.rs 235-259 and 799-823: it
\* reads the parameters once and fills the buffer with the tone when the
\* playing flag is set, with 0.0 otherwise.
Callback ==
    /\ audio_stream # None
    /\ output' = IF audio_params.is_playing THEN "tone" ELSE "silence"
    /\ UNCHANGED <<now, engine, timers, control, history>>

----------------------------------------------------------------------------
\* The safety timer thread, lib.rs 394-427

SetTimer(i, label) == timers' = [timers EXCEPT ![i].pc = label]
ExitTimer(i) == timers' = [timers EXCEPT ![i] = NoTimer]

\* lib.rs 395-396: the while condition; when it holds the thread sleeps 1 s.
TimerLoop(i) ==
    /\ timers[i].pc = "loop"
    /\ IF timer_running
          THEN timers' = [timers EXCEPT ![i].pc = "sleep", ![i].wake = now + TICK_MS]
          ELSE ExitTimer(i)
    /\ UNCHANGED <<now, engine, output, control, history>>

\* lib.rs 398-405: elapsed since the session start, 0 when there is none.
Elapsed(s, t_now) ==
    IF s.session_start_ms # None
       THEN SaturatingSub(t_now, Unwrap(s.session_start_ms))
       ELSE 0

\* lib.rs 396-408: wake up, read elapsed under the session lock, compare.
TimerWake(i) ==
    /\ timers[i].pc = "sleep"
    /\ timers[i].wake <= now
    /\ IF Elapsed(session, now) >= MAX_SESSION_DURATION_MS
          THEN SetTimer(i, "cut_audio")
          ELSE SetTimer(i, "loop")
    /\ UNCHANGED <<now, engine, output, control, history>>

\* lib.rs 412: audio_params.is_playing.store(false)
TimerCutAudio(i) ==
    /\ timers[i].pc = "cut_audio"
    /\ StorePlaying(FALSE)
    /\ SetTimer(i, "cut_state")
    /\ UNCHANGED <<now, session, audio_stream, audio_config, config_guard,
                   timer_handle, timer_running, output, control, cutoffs, mark>>

\* Fault injection: the cutoff update without the elapsed_ms write.
TimerCutStateKeepsElapsed(i) ==
    /\ timers[i].pc = "cut_state"
    /\ session' = [session EXCEPT !.is_playing = FALSE,
                                  !.session_start_ms = None,
                                  !.remaining_ms = 0]
    /\ cutoffs' = cutoffs + 1
    /\ SetTimer(i, "cut_flag")
    /\ UNCHANGED <<now, audio_params, audio_stream, audio_config, config_guard,
                   timer_handle, timer_running, output, control, playing_since, mark>>

\* lib.rs 415-421: the session update under the lock.
TimerCutState(i) ==
    /\ timers[i].pc = "cut_state"
    /\ session' = [session EXCEPT !.is_playing = FALSE,
                                  !.session_start_ms = None,
                                  !.elapsed_ms = MAX_SESSION_DURATION_MS,
                                  !.remaining_ms = 0]
    /\ cutoffs' = cutoffs + 1
    /\ SetTimer(i, "cut_flag")
    /\ UNCHANGED <<now, audio_params, audio_stream, audio_config, config_guard,
                   timer_handle, timer_running, output, control, playing_since, mark>>

\* lib.rs 423-424: timer_running.store(false); break
TimerCutFlag(i) ==
    /\ timers[i].pc = "cut_flag"
    /\ timer_running' = FALSE
    /\ ExitTimer(i)
    /\ UNCHANGED <<now, session, audio_params, audio_stream, audio_config,
                   config_guard, timer_handle, output, control, history>>

----------------------------------------------------------------------------
\* The clock

\* The first wake-up of sleeping timer i at or after instant w, on the
\* timer's 1 s grid wake + k * TICK_MS.
GridAtOrAfter(i, w) ==
    LET wk == timers[i].wake
    IN IF w <= wk THEN wk
       ELSE wk + ((w - wk + TICK_MS - 1) \div TICK_MS) * TICK_MS

\* The first wake-up of sleeping timer i that does not end in going back to
\* sleep, with the shared state as it is now: the next one when the loop
\* condition (lib.rs 395) is false, else the first at which the cutoff test
\* (lib.rs 408) holds; None when there is no such wake-up.
FirstBusyWake(i) ==
    IF ~timer_running THEN Some(timers[i].wake)
    ELSE IF session.session_start_ms = None THEN None
    ELSE Some(GridAtOrAfter(i, Unwrap(session.session_start_ms)
                                 + MAX_SESSION_DURATION_MS))

BusyWakes ==
    {Unwrap(FirstBusyWake(i)) : i \in {j \in AliveTimers : FirstBusyWake(j) # None}}

\* Time passes to instant t.  Each sleeping timer, all of whose wake-ups
\* before t end in going back to sleep, is moved to its first wake-up at or
\* after t.
Advance(t) ==
    /\ t > now
    /\ t <= MaxNow
    /\ \A u \in Threads : pc[u] = "idle"
    /\ \A i \in AliveTimers : Asleep(i)
    /\ \A w \in BusyWakes : t <= w
    /\ now' = t
    /\ timers' = [i \in TimerIds |->
                    IF Alive(i) THEN [timers[i] EXCEPT !.wake = GridAtOrAfter(i, t)]
                                ELSE timers[i]]
    /\ UNCHANGED <<engine, output, control, history>>

Tick == \E t \in Instants \cup BusyWakes \cup {MaxNow} : Advance(t)

----------------------------------------------------------------------------
Timer ==
    \E i \in TimerIds :
        \/ TimerLoop(i)
        \/ TimerWake(i)
        \/ TimerCutAudio(i)
        \/ TimerCutState(i)
        \/ TimerCutFlag(i)

Lifecycle(t) ==
    \/ StartCheck(t)
    \/ StartStream(t)
    \/ StartEnable(t)
    \/ StartState(t)
    \/ StartFlag(t)
    \/ StartSpawn(t)
    \/ StartHandle(t)
    \/ StopFlag(t)
    \/ StopAudio(t)
    \/ StopState(t)
    \/ StopHandle(t)
    \/ GetSessionState(t)

Params(t) ==
    \/ \E hz \in FreqInputs : SetFrequency(t, hz)
    \/ SetFrequencyParams(t)
    \/ \E amplitude \in AmpInputs : SetAmplitude(t, amplitude)
    \/ SetAmplitudeParams(t)
    \/ \E waveform \in WaveformInputs : SetWaveform(t, waveform)
    \/ SetWaveformParams(t)

Config(t) ==
    \/ GetAudioConfig(t)
    \/ \E d \in DeviceInputs, r \in RateInputs, b \in SizeInputs :
          SetAudioConfig(t, d, r, b)
    \/ SetAudioConfigRead(t)
    \/ SetAudioConfigTake(t)
    \/ SetAudioConfigCreate(t)
    \/ SetAudioConfigStore(t)

\* The session life cycle under two control threads: start_session,
\* stop_session and get_session_state in every interleaving with each other
\* and with the timer threads.
Next ==
    \/ \E t \in Threads : Lifecycle(t)
    \/ Timer
    \/ Tick

Spec == Init /\ [][Next]_vars

\* The whole engine under one control thread (the application issues its
\* commands one at a time): every command, the timer threads and the audio
\* callback.
NextEngine ==
    \/ Lifecycle(1)
    \/ Params(1)
    \/ Config(1)
    \/ Callback
    \/ Timer
    \/ Tick

SpecEngine == Init /\ [][NextEngine]_vars

\* The session life cycle and set_audio_config (its device argument only)
\* under two control threads.
NextStreams ==
    \/ \E t \in Threads : Lifecycle(t)
    \/ \E t \in Threads :
          \/ \E d \in DeviceInputs : SetAudioConfig(t, d, None, None)
          \/ SetAudioConfigRead(t)
          \/ SetAudioConfigTake(t)
          \/ SetAudioConfigCreate(t)
          \/ SetAudioConfigStore(t)
    \/ Timer
    \/ Tick

SpecStreams == Init /\ [][NextStreams]_vars

\* The setters under two control threads.
NextParams == \E t \in Threads : Params(t)

SpecParams == Init /\ [][NextParams]_vars

\* The arguments of the setters and of set_audio_config over wider domains,
\* with the boundary values of every validation.
FrequencyDomain == {-1000, 0, 999, 1000, 25500, 60000, 60001}
AmplitudeDomain == {-5000, -1, 0, 300, 800, 801, 5000}
WaveformDomain == {"sine", "Sine", "SQUARE", "triangle", "SawTooth", "Noise", "sin", ""}
DeviceDomain == {None, Some("ALSA:hw:0")}
RateDomain == {None, Some(44123), Some(48000), Some(192000), Some(192001)}
SizeDomain == {None, Some(0), Some(31), Some(32), Some(48), Some(8192),
               Some(8193), Some(2147483647)}

\* The engine between sessions: no session has been started yet, or one has
\* been started and stopped and has left its stream open (lib.rs 441-467
\* does not touch the stream).
InitSetters ==
    /\ now = 0
    /\ session = DefaultSession
    /\ audio_params = NewAudioParams
    /\ audio_stream \in {None, Some(DefaultStream)}
    /\ audio_config = DefaultAudioConfig
    /\ config_guard = None
    /\ timer_handle = None
    /\ timer_running = FALSE
    /\ timers = [i \in TimerIds |-> NoTimer]
    /\ output = "none"
    /\ pc = [t \in Threads |-> "idle"]
    /\ local = [t \in Threads |-> None]
    /\ last = [t \in Threads |-> "none"]
    /\ cmds = 0
    /\ playing_since = None
    /\ cutoffs = 0
    /\ mark = [t \in Threads |-> 0]

\* One control thread issuing set_frequency, set_amplitude and set_waveform
\* between sessions.
NextSetters ==
    \/ \E hz \in FrequencyDomain : SetFrequency(1, hz)
    \/ SetFrequencyParams(1)
    \/ \E amplitude \in AmplitudeDomain : SetAmplitude(1, amplitude)
    \/ SetAmplitudeParams(1)
    \/ \E waveform \in WaveformDomain : SetWaveform(1, waveform)
    \/ SetWaveformParams(1)

SpecSetters == InitSetters /\ [][NextSetters]_vars

\* One control thread issuing set_audio_config and get_audio_config between
\* sessions.
NextConfig ==
    \/ \E d \in DeviceDomain, r \in RateDomain, b \in SizeDomain :
          SetAudioConfig(1, d, r, b)
    \/ SetAudioConfigRead(1)
    \/ GetAudioConfig(1)

SpecConfig == InitSetters /\ [][NextConfig]_vars

----------------------------------------------------------------------------
\* Properties of the session life cycle

\* C1: the playing flag read by the audio callback never stays true for
\* longer than MAX_SESSION_DURATION_MS plus one timer tick, under every
\* interleaving of start_session and stop_session calls with the timer
\* threads.
C1_PlayingBounded ==
    audio_params.is_playing =>
        now - Unwrap(playing_since) <= MAX_SESSION_DURATION_MS + TICK_MS

\* C2: after a start_session that is the only command so far, the session
\* plays until MAX_SESSION_DURATION_MS have elapsed and then the timer thread
\* cuts it off: is_playing false in the session and in the shared flag, no
\* start time, remaining_ms 0, elapsed_ms MAX_SESSION_DURATION_MS.  The
\* start_session that follows the cutoff does not fail and leaves the session
\* playing with elapsed_ms 0 and remaining_ms MAX_SESSION_DURATION_MS.
C2_CutoffThenRestart ==
    /\ (cmds = 1 /\ pc[1] = "idle" /\ last[1] = "start_ok") =>
          /\ \A i \in AliveTimers : timers[i].pc \in {"loop", "sleep"} =>
                /\ session.is_playing /\ audio_params.is_playing
                /\ session.session_start_ms # None
                /\ now - Unwrap(session.session_start_ms) <= MAX_SESSION_DURATION_MS
          /\ AliveTimers = {} =>
                /\ ~session.is_playing /\ ~audio_params.is_playing
                /\ session.session_start_ms = None
                /\ session.remaining_ms = 0
                /\ session.elapsed_ms = MAX_SESSION_DURATION_MS
                /\ now >= MAX_SESSION_DURATION_MS
    /\ (cmds = 2 /\ pc[1] = "idle" /\ cutoffs >= 1) => last[1] # "start_err"
    /\ (/\ cmds = 2 /\ pc[1] = "idle" /\ last[1] = "start_ok"
        /\ cutoffs = 1 /\ mark[1] = 1) =>
          /\ session.is_playing
          /\ session.session_start_ms # None
          /\ session.elapsed_ms = 0
          /\ session.remaining_ms = MAX_SESSION_DURATION_MS
          /\ (\A i \in TimerIds : timers[i].pc # "cut_state") => audio_params.is_playing

\* The second start_session has returned after the first session's cutoff.
C2_Witness ==
    /\ cmds = 2 /\ pc[1] = "idle" /\ last[1] = "start_ok"
    /\ cutoffs = 1 /\ mark[1] = 1
    /\ session.is_playing

\* A step in which the control thread calls start_session.
StartCallStep ==
    /\ cmds' = cmds + 1
    /\ \/ pc'[1] = "start_stream"
       \/ pc'[1] = "idle" /\ last'[1] = "start_noop"

\* C3: a start_session called while the session is playing returns at once
\* and changes nothing (no stream, no timer thread, session_start_ms,
\* elapsed_ms and remaining_ms as they were); after start, start there is
\* exactly one stream and one timer thread.
C3_SecondStartNoOp ==
    /\ [][(StartCallStep /\ session.is_playing) =>
             /\ pc'[1] = "idle" /\ last'[1] = "start_noop"
             /\ UNCHANGED <<engine, timers>>]_vars
    /\ [](cmds = 2 /\ pc[1] = "idle" /\ last[1] = "start_noop" /\ cutoffs = 0 =>
             /\ Cardinality(AliveTimers) = 1
             /\ audio_stream # None
             /\ session.is_playing
             /\ session.elapsed_ms = 0
             /\ session.remaining_ms = MAX_SESSION_DURATION_MS)

\* start_session, start_session has been called and the timer is running.
C3_Witness ==
    /\ cmds = 2 /\ pc[1] = "idle" /\ last[1] = "start_noop"
    /\ Cardinality(AliveTimers) = 1 /\ audio_stream # None

\* C4: at every point of every execution at most one safety timer thread is
\* alive.
C4_OneTimer == Cardinality(AliveTimers) <= 1

\* C5: once stop_session has returned, a timer thread that was alive at that
\* moment exits within one tick, whatever commands follow.
C5_TimerExitsAfterStop ==
    \A i \in AliveTimers :
        timers[i].stopped # None => now <= Unwrap(timers[i].stopped) + TICK_MS

StopPcs == {"stop_audio", "stop_state", "stop_handle"}

\* A step of the control thread inside stop_session.
StopStep == pc'[1] # pc[1] /\ (pc[1] \in StopPcs \/ pc'[1] \in StopPcs)

\* C6: stop_session, in any state, leaves is_playing false in the session
\* and in the shared flag and the start time cleared, and none of its steps
\* changes the stream, the audio configuration, or the frequency, amplitude
\* and waveform of the session and of the parameter channel.
C6_StopFrame ==
    /\ [][StopStep =>
             /\ UNCHANGED <<audio_stream, audio_config>>
             /\ session'.current_frequency_hz = session.current_frequency_hz
             /\ session'.amplitude = session.amplitude
             /\ session'.waveform = session.waveform
             /\ audio_params'.frequency_hz = audio_params.frequency_hz
             /\ audio_params'.amplitude = audio_params.amplitude
             /\ audio_params'.waveform = audio_params.waveform]_vars
    /\ [](pc[1] = "idle" /\ last[1] = "stop_ok" =>
             /\ ~session.is_playing
             /\ ~audio_params.is_playing
             /\ session.session_start_ms = None)

\* stop_session has returned from a session whose frequency had been set and
\* whose stream is open.
C6_Witness ==
    /\ pc[1] = "idle" /\ last[1] = "stop_ok"
    /\ audio_stream # None
    /\ session.current_frequency_hz # DefaultSession.current_frequency_hz

StartOk == {"start_ok", "start_noop"}

\* C7 as stated: once start_session has returned Ok, the control thread's
\* next get_session_state returns is_playing = true.
C7_PlayingAfterStart ==
    (pc[1] = "idle" /\ last[1] \in StartOk) => session.is_playing

\* C7, amended: once start_session has returned Ok, the control thread's
\* next get_session_state returns is_playing = true unless a timer thread's
\* cutoff has written the session since start_session read or wrote it.
C7_PlayingUnlessCutoff ==
    (pc[1] = "idle" /\ last[1] \in StartOk /\ mark[1] = cutoffs) => session.is_playing

\* start_session has returned after an earlier cutoff, time has passed, and
\* no cutoff has happened since.
C7_Witness ==
    /\ pc[1] = "idle" /\ last[1] = "start_ok"
    /\ cutoffs = 1 /\ mark[1] = cutoffs
    /\ session.session_start_ms # None
    /\ now > Unwrap(session.session_start_ms)

\* C8: in every reachable session state
\* remaining_ms = max(0, MAX_SESSION_DURATION_MS - elapsed_ms).
C8_RemainingFromElapsed ==
    session.remaining_ms = Max(0, MAX_SESSION_DURATION_MS - session.elapsed_ms)

\* A step in which the control thread calls get_session_state.
GetStep ==
    /\ cmds' = cmds + 1
    /\ pc'[1] = "idle"
    /\ last'[1] \in {"get_playing", "get_stopped"}

\* C9: while the session stays playing with the same start time, elapsed_ms
\* never decreases; get_session_state recomputes elapsed_ms and remaining_ms
\* from the clock when is_playing is true and leaves the session untouched
\* otherwise.
C9_ElapsedMonotone ==
    /\ [][(/\ session.is_playing /\ session'.is_playing
            /\ session'.session_start_ms = session.session_start_ms) =>
               session'.elapsed_ms >= session.elapsed_ms]_vars
    /\ [][GetStep =>
             IF session.is_playing
                THEN LET e == now - Unwrap(session.session_start_ms)
                     IN session' = [session EXCEPT
                                       !.elapsed_ms = e,
                                       !.remaining_ms =
                                           Max(0, MAX_SESSION_DURATION_MS - e)]
                ELSE session' = session]_vars

\* get_session_state has returned a positive elapsed_ms from a playing session.
C9_Witness ==
    /\ pc[1] = "idle" /\ last[1] = "get_playing"
    /\ session.is_playing /\ session.elapsed_ms > 0

\* C10: is_playing goes from false to true, in the shared flag and in the
\* session, only in a step of start_session (lib.rs 376 and 379-386).
C10_OnlyStartTurnsOn ==
    /\ [][(~audio_params.is_playing /\ audio_params'.is_playing) =>
             (pc[1] = "start_enable" /\ pc'[1] = "start_state")]_vars
    /\ [][(~session.is_playing /\ session'.is_playing) =>
             (pc[1] = "start_state" /\ pc'[1] = "start_flag")]_vars

\* Both flags are on again after a cutoff had switched them off.
C10_Witness ==
    cutoffs >= 1 /\ session.is_playing /\ audio_params.is_playing

----------------------------------------------------------------------------
\* Sample generation and the output callback in detail, lib.rs 192-259.
\* Phases are in millionths of a cycle, frequencies in thousandths of a
\* hertz, amplitudes and samples in thousandths; products are rounded down.

\* 1.0 as a phase (lib.rs 253-255)
PhaseOne == 1000000

WaveformTypes == {"Sine", "Square", "Triangle", "Sawtooth"}

\* (2.0 * PI * phase).sin() in thousandths, by Bhaskara's approximation
\* 4u / (312500 - u) with u = h * (500 - h) over the half cycle h (in
\* thousandths of a cycle): exact at 0, 1/4, 1/2 and 3/4 of a cycle, within
\* 0.002 of the sine elsewhere, and like the sine never outside [-1, 1].
SinTurn(phase) ==
    LET q == phase \div 1000
        h == IF q < 500 THEN q ELSE q - 500
        u == h * (500 - h)
        half == (4000 * u) \div (312500 - u)
    IN IF q < 500 THEN half ELSE 0 - half

\* Fault injection: the triangle falling in its first half and the sawtooth
\* falling.
GenerateSampleFalling(waveform, phase, amplitude) ==
    LET safe_amplitude == Min(amplitude, MAX_AMPLITUDE)
    IN CASE waveform = "Sine" ->
              (safe_amplitude * SinTurn(phase)) \div 1000
         [] waveform = "Square" ->
              IF phase < PhaseOne \div 2 THEN safe_amplitude
              ELSE 0 - safe_amplitude
         [] waveform = "Triangle" ->
              IF phase < PhaseOne \div 2
                 THEN (safe_amplitude * (PhaseOne - 4 * phase)) \div PhaseOne
                 ELSE (safe_amplitude * (3 * PhaseOne - 4 * phase)) \div PhaseOne
         [] waveform = "Sawtooth" ->
              (safe_amplitude * (PhaseOne - 2 * phase)) \div PhaseOne

\* lib.rs 192-212
GenerateSample(waveform, phase, amplitude) ==
    LET safe_amplitude == Min(amplitude, MAX_AMPLITUDE)
    IN CASE waveform = "Sine" ->
              (safe_amplitude * SinTurn(phase)) \div 1000
         [] waveform = "Square" ->
              IF phase < PhaseOne \div 2 THEN safe_amplitude
              ELSE 0 - safe_amplitude
         [] waveform = "Triangle" ->
              IF phase < PhaseOne \div 2
                 THEN (safe_amplitude * (4 * phase - PhaseOne)) \div PhaseOne
                 ELSE (safe_amplitude * (3 * PhaseOne - 4 * phase)) \div PhaseOne
         [] waveform = "Sawtooth" ->
              (safe_amplitude * (2 * phase - PhaseOne)) \div PhaseOne

\* The arguments of a generate_sample call.
SamplePhases == {0, 125000, 250000, 499999, 500000, 750000, 999999}
SampleAmplitudes == {-2000, -800, -1, 0, 300, 800, 801, 2000}

\* A generate_sample call about to be made: `output` holds its arguments and,
\* once it has returned, its result.
InitSample ==
    /\ now = 0
    /\ session = DefaultSession
    /\ audio_params = NewAudioParams
    /\ audio_stream = None
    /\ audio_config = DefaultAudioConfig
    /\ config_guard = None
    /\ timer_handle = None
    /\ timer_running = FALSE
    /\ timers = [i \in TimerIds |-> NoTimer]
    /\ \E w \in WaveformTypes, p \in SamplePhases, a \in SampleAmplitudes :
          output = [waveform |-> w, phase |-> p, amplitude |-> a,
                    sample |-> None]
    /\ pc = [t \in Threads |-> "idle"]
    /\ local = [t \in Threads |-> None]
    /\ last = [t \in Threads |-> "none"]
    /\ cmds = 0
    /\ playing_since = None
    /\ cutoffs = 0
    /\ mark = [t \in Threads |-> 0]

GenerateSampleCall ==
    /\ output.sample = None
    /\ output' = [output EXCEPT !.sample =
                     Some(GenerateSample(output.waveform, output.phase,
                                         output.amplitude))]
    /\ UNCHANGED <<now, engine, timers, control, history>>

SpecSample == InitSample /\ [][GenerateSampleCall]_vars

\* The sample rate and channel count of the default output configuration of
\* the default device (lib.rs 223-228), and the numbers of frames of the
\* buffers the device hands to the callback.
NativeSampleRate == 48000
NativeChannels == 2
FrameCounts == {1, 3}

\* The buffers one run of the callback model fills.
MaxBuffers == 2

\* The state a stream's callback closure captures when the stream is built
\* (lib.rs 227-230), with the values the callback works on: what it read at
\* its start, the buffer it was handed and what it wrote there.  `start` and
\* `began_playing` note the phase and the shared playing flag at the moment
\* the latest invocation began.
NewClosure(sample_rate, channels, phase) ==
    [ sample_rate |-> sample_rate, channels |-> channels, phase |-> phase,
      pc |-> "frequency", buffers |-> 0, frames |-> 0,
      frequency |-> 0, amplitude |-> 0, waveform |-> "Sine",
      is_playing |-> FALSE, data |-> <<>>,
      start |-> phase, began_playing |-> FALSE ]

\* lib.rs 236: the device calls back with a buffer of n frames;
\* frequency = params.get_frequency()
CallbackFrequency(n) ==
    /\ audio_stream # None
    /\ output.pc = "frequency"
    /\ output.buffers < MaxBuffers
    /\ output' = [output EXCEPT !.frames = n,
                                !.frequency = audio_params.frequency_hz,
                                !.pc = "amplitude",
                                !.start = output.phase,
                                !.began_playing = audio_params.is_playing]
    /\ UNCHANGED <<now, engine, timers, control, history>>

\* lib.rs 237: amplitude = params.get_amplitude()
CallbackAmplitude ==
    /\ output.pc = "amplitude"
    /\ output' = [output EXCEPT !.amplitude = audio_params.amplitude,
                                !.pc = "waveform"]
    /\ UNCHANGED <<now, engine, timers, control, history>>

\* lib.rs 238: waveform = *params.waveform.lock().unwrap()
CallbackWaveform ==
    /\ output.pc = "waveform"
    /\ output' = [output EXCEPT !.waveform = audio_params.waveform,
                                !.pc = "is_playing"]
    /\ UNCHANGED <<now, engine, timers, control, history>>

\* lib.rs 239: is_playing = params.is_playing.load()
CallbackPlaying ==
    /\ output.pc = "is_playing"
    /\ output' = [output EXCEPT !.is_playing = audio_params.is_playing,
                                !.pc = "fill"]
    /\ UNCHANGED <<now, engine, timers, control, history>>

\* Fault injection: the phase advanced without the wrap.
NextPhaseNoWrap(phase, phase_increment) == phase + phase_increment

\* lib.rs 252-255: phase += phase_increment; one subtraction when >= 1.0
NextPhase(phase, phase_increment) ==
    LET p == phase + phase_increment
    IN IF p >= PhaseOne THEN p - PhaseOne ELSE p

\* The phase after k frames.
RECURSIVE PhaseAfter(_, _, _)
PhaseAfter(phase, phase_increment, k) ==
    IF k = 0 THEN phase
    ELSE NextPhase(PhaseAfter(phase, phase_increment, k - 1), phase_increment)

\* Fault injection: a frame's sample generated whatever the playing flag.
FrameSampleUnmuted(is_playing, waveform, phase, amplitude) ==
    GenerateSample(waveform, phase, amplitude)

\* lib.rs 244-248
FrameSample(is_playing, waveform, phase, amplitude) ==
    IF is_playing THEN GenerateSample(waveform, phase, amplitude) ELSE 0

\* lib.rs 241: phase_increment = frequency / sample_rate
PhaseIncrement(frequency, sample_rate) == (frequency * 1000) \div sample_rate

\* Fault injection: the frame loop reading the shared parameters itself.
CallbackFillRereads ==
    /\ output.pc = "fill"
    /\ LET phase_increment == PhaseIncrement(output.frequency,
                                             output.sample_rate)
       IN output' =
            [output EXCEPT
               !.data = [k \in 1..output.frames |->
                           [c \in 1..output.channels |->
                              IF audio_params.is_playing
                                 THEN GenerateSample(audio_params.waveform,
                                         PhaseAfter(output.phase,
                                                    phase_increment, k - 1),
                                         audio_params.amplitude)
                                 ELSE 0]],
               !.phase = PhaseAfter(output.phase, phase_increment,
                                    output.frames),
               !.buffers = output.buffers + 1,
               !.pc = "frequency"]
    /\ UNCHANGED <<now, engine, timers, control, history>>

\* Fault injection: the phase advanced only while playing.
CallbackFillHoldsPhase ==
    /\ output.pc = "fill"
    /\ LET phase_increment == PhaseIncrement(output.frequency,
                                             output.sample_rate)
       IN output' =
            [output EXCEPT
               !.data = [k \in 1..output.frames |->
                           [c \in 1..output.channels |->
                              IF output.is_playing
                                 THEN GenerateSample(output.waveform,
                                         PhaseAfter(output.phase,
                                                    phase_increment, k - 1),
                                         output.amplitude)
                                 ELSE 0]],
               !.phase = IF output.is_playing
                            THEN PhaseAfter(output.phase, phase_increment,
                                            output.frames)
                            ELSE output.phase,
               !.buffers = output.buffers + 1,
               !.pc = "frequency"]
    /\ UNCHANGED <<now, engine, timers, control, history>>

\* lib.rs 241-256: phase_increment = frequency / sample_rate, then for each
\* frame of the buffer the sample, copied to every channel, and the phase
\* advance.  The loop touches nothing shared.
CallbackFill ==
    /\ output.pc = "fill"
    /\ LET phase_increment == PhaseIncrement(output.frequency,
                                             output.sample_rate)
       IN output' =
            [output EXCEPT
               !.data = [k \in 1..output.frames |->
                           [c \in 1..output.channels |->
                              FrameSample(output.is_playing, output.waveform,
                                          PhaseAfter(output.phase,
                                                     phase_increment, k - 1),
                                          output.amplitude)]],
               !.phase = PhaseAfter(output.phase, phase_increment,
                                    output.frames),
               !.buffers = output.buffers + 1,
               !.pc = "frequency"]
    /\ UNCHANGED <<now, engine, timers, control, history>>

\* The lower-case name the session keeps for a waveform kind.
KindName(w) ==
    CASE w = "Sine" -> "sine"
      [] w = "Square" -> "square"
      [] w = "Triangle" -> "triangle"
      [] w = "Sawtooth" -> "sawtooth"

\* The parameter values, sample rates and phases the callback model starts
\* from: frequencies and amplitudes the setters store, rates a stream is built
\* with, phases a stream has after 0, 400 and 799 frames of 60 Hz at 48 kHz.
CallbackFrequencies == {1000, 60000}
CallbackAmplitudes == {0, 300, 800}
CallbackRates == {44100, 192000}
CallbackPhases == {0, 500000, 998750}

\* The engine with a stream held, some parameters set and a session either
\* stopped or just started, seen from the stream's callback.
InitCallback ==
    \E f \in CallbackFrequencies, a \in CallbackAmplitudes,
       w \in WaveformTypes, playing \in BOOLEAN, p \in CallbackPhases :
       /\ now = 0
       /\ session = [DefaultSession EXCEPT
                        !.is_playing = playing,
                        !.current_frequency_hz = f,
                        !.amplitude = a,
                        !.waveform = KindName(w),
                        !.session_start_ms = IF playing THEN Some(0) ELSE None]
       /\ audio_params = [frequency_hz |-> f, amplitude |-> a,
                          waveform |-> w, is_playing |-> playing]
       /\ \/ /\ audio_stream = Some(DefaultStream)
             /\ output = NewClosure(NativeSampleRate, NativeChannels, p)
          \/ \E r \in CallbackRates :
                /\ audio_stream = Some([device |-> "default", phase_rate |-> r])
                /\ output = NewClosure(r, NativeChannels, p)
       /\ audio_config = DefaultAudioConfig
       /\ config_guard = None
       /\ timer_handle = IF playing THEN Some(1) ELSE None
       /\ timer_running = playing
       /\ timers = [i \in TimerIds |->
                      IF playing /\ i = 1
                         THEN [pc |-> "loop", wake |-> 0, stopped |-> None]
                         ELSE NoTimer]
       /\ pc = [t \in Threads |-> "idle"]
       /\ local = [t \in Threads |-> None]
       /\ last = [t \in Threads |-> IF playing /\ t = 1 THEN "start_ok"
                                    ELSE "none"]
       /\ cmds = 0
       /\ playing_since = IF playing THEN Some(0) ELSE None
       /\ cutoffs = 0
       /\ mark = [t \in Threads |-> 0]

\* The callback against a control thread that stops the session.
NextCallback ==
    \/ \E n \in FrameCounts : CallbackFrequency(n)
    \/ CallbackAmplitude
    \/ CallbackWaveform
    \/ CallbackPlaying
    \/ CallbackFill
    \/ StopFlag(1)
    \/ StopAudio(1)
    \/ StopState(1)
    \/ StopHandle(1)

SpecCallback == InitCallback /\ [][NextCallback]_vars

\* A playing session against a control thread that calls get_audio_config and
\* set_audio_config.
InitSwap ==
    /\ InitCallback
    /\ audio_params.is_playing
    /\ audio_params.waveform = "Sine"
    /\ audio_params.frequency_hz = 1000
    /\ audio_params.amplitude = 300
    /\ output.phase = 0
    /\ output.sample_rate = NativeSampleRate

NextSwap == Config(1)

SpecSwap == InitSwap /\ [][NextSwap]_vars

\* A playing session, its stream fresh, whose callback runs against a control
\* thread that sets parameters and stops the session.
InitBuffer ==
    /\ InitCallback
    /\ audio_params.is_playing
    /\ audio_params.waveform = "Square"
    /\ audio_params.frequency_hz = 60000
    /\ output.phase = 0
    /\ output.sample_rate = NativeSampleRate

NextBuffer ==
    \/ NextCallback
    \/ Params(1)

SpecBuffer == InitBuffer /\ [][NextBuffer]_vars

----------------------------------------------------------------------------
\* Opening a stream for a config in detail, lib.rs 747-830.  A string is a
\* sequence of its characters.

\* The hosts available and the output devices of each, with the sample rate
\* and the channel count of each device's default output configuration.
\* Host "A" is the default host and "h" its default output device.  named
\* tells whether Device::name() returns Ok(name): host "J" has one device
\* whose name cannot be read.
AvailableHosts == { <<"A">>, <<"J">> }

HostDevices(host) ==
    IF host = <<"A">>
       THEN { [host |-> <<"A">>, named |-> TRUE, name |-> <<"h">>,
               sample_rate |-> 48000, channels |-> 2],
              [host |-> <<"A">>, named |-> TRUE, name |-> <<"h", ":", "0">>,
               sample_rate |-> 44100, channels |-> 1] }
       ELSE { [host |-> <<"J">>, named |-> TRUE, name |-> <<"p">>,
               sample_rate |-> 48000, channels |-> 2],
              [host |-> <<"J">>, named |-> FALSE, name |-> <<>>,
               sample_rate |-> 48000, channels |-> 2] }

\* lib.rs 601: the name get_audio_devices lists a device under.
DeviceName(d) ==
    IF d.named THEN d.name
    ELSE <<"U", "n", "k", "n", "o", "w", "n", " ",
           "D", "e", "v", "i", "c", "e">>

\* lib.rs 657: format!("{}:{}", host_id.name(), device_name)
DeviceId(d) == d.host \o <<":">> \o DeviceName(d)

\* cpal::default_host().default_output_device()
DefaultOutputDevice ==
    CHOOSE d \in HostDevices(<<"A">>) : d.name = <<"h">>

\* The positions of ':' in a string.
Colons(s) == {i \in 1..Len(s) : s[i] = ":"}

\* lib.rs 757: device_id.splitn(2, ':').collect()
SplitN2(s) ==
    IF Colons(s) = {} THEN <<s>>
    ELSE LET i == CHOOSE i \in Colons(s) : \A j \in Colons(s) : i <= j
         IN <<SubSeq(s, 1, i - 1), SubSeq(s, i + 1, Len(s))>>

\* Fault injection: the device looked up by its name on every host.
FindDeviceAnyHost(config) ==
    IF config.device_id = None
       THEN [device |-> Some(DefaultOutputDevice), err |-> ""]
    ELSE LET parts == SplitN2(Unwrap(config.device_id))
         IN IF Len(parts) # 2
               THEN [device |-> None, err |-> "Invalid device ID format"]
            ELSE LET named == {d \in UNION {HostDevices(h) : h \in AvailableHosts} :
                                 d.named /\ d.name = parts[2]}
                 IN IF named = {}
                       THEN [device |-> None, err |-> "Device not found"]
                       ELSE [device |-> Some(CHOOSE d \in named : TRUE),
                             err |-> ""]

\* lib.rs 754-782: the device a config selects, or the error returned.
FindDevice(config) ==
    IF config.device_id = None
       THEN [device |-> Some(DefaultOutputDevice), err |-> ""]
    ELSE LET parts == SplitN2(Unwrap(config.device_id))
         IN IF Len(parts) # 2
               THEN [device |-> None, err |-> "Invalid device ID format"]
            ELSE IF parts[1] \notin AvailableHosts
               THEN [device |-> None, err |-> "Audio host not found"]
            ELSE LET named == {d \in HostDevices(parts[1]) :
                                 d.named /\ d.name = parts[2]}
                 IN IF named = {}
                       THEN [device |-> None, err |-> "Device not found"]
                       ELSE [device |-> Some(CHOOSE d \in named : TRUE),
                             err |-> ""]

\* The device selectors of the configs opened.
Selectors ==
    { None,
      Some(<<"A", ":", "h">>),
      Some(<<"A", ":", "h", ":", "0">>),
      Some(<<"J", ":", "p">>),
      Some(<<"J", ":", "U", "n", "k", "n", "o", "w", "n", " ",
             "D", "e", "v", "i", "c", "e">>),
      Some(<<"A", "h">>),
      Some(<<>>),
      Some(<<":">>),
      Some(<<"A", ":">>),
      Some(<<"X", ":", "h">>),
      Some(<<"J", ":", "h">>),
      Some(<<"A", ":", "p">>),
      Some(<<"h">>) }

\* A config as set_audio_config stores it (any selector, an allowed rate, an
\* allowed size) about to be opened: `output` holds the outcome.
InitOpen ==
    /\ now = 0
    /\ session = DefaultSession
    /\ audio_params = NewAudioParams
    /\ audio_stream = None
    /\ \E d \in Selectors, r \in {44100, 48000, 192000}, b \in {256, 512} :
          audio_config = [device_id |-> d, sample_rate |-> r,
                          buffer_size |-> b]
    /\ config_guard = None
    /\ timer_handle = None
    /\ timer_running = FALSE
    /\ timers = [i \in TimerIds |-> NoTimer]
    /\ output = [result |-> "pending", stream |-> None]
    /\ pc = [t \in Threads |-> "idle"]
    /\ local = [t \in Threads |-> None]
    /\ last = [t \in Threads |-> "none"]
    /\ cmds = 0
    /\ playing_since = None
    /\ cutoffs = 0
    /\ mark = [t \in Threads |-> 0]

\* lib.rs 747-830: find the device; take its default output configuration as
\* the stream format (lib.rs 786-788, 797); the callback computes its phase
\* increment from config.sample_rate (lib.rs 790, 805) and fans out to the
\* format's channels (lib.rs 791).  default_output_config and
\* build_output_stream may fail.
CreateAudioStreamWithConfig ==
    /\ output.result = "pending"
    /\ LET found == FindDevice(audio_config)
       IN \/ /\ found.device = None
             /\ output' = [result |-> found.err, stream |-> None]
          \/ /\ found.device # None
             /\ output' = [result |-> "Failed to build output stream",
                           stream |-> None]
          \/ /\ found.device # None
             /\ LET device == Unwrap(found.device)
                IN output' =
                     [result |-> "ok",
                      stream |-> Some([host |-> device.host,
                                       name |-> device.name,
                                       format_rate |-> device.sample_rate,
                                       channels |-> device.channels,
                                       phase_rate |-> audio_config.sample_rate])]
    /\ UNCHANGED <<now, engine, timers, control, history>>

SpecOpen == InitOpen /\ [][CreateAudioStreamWithConfig]_vars

----------------------------------------------------------------------------
\* get_audio_devices, lib.rs 586-674: what it reports for one device from the
\* configuration ranges the device supports.

\* lib.rs 615: the candidate rates in the order they are tried.
CommonRates == <<44100, 48000, 88200, 96000, 176400, 192000>>

\* Vec::contains
Contains(s, x) == \E i \in 1..Len(s) : s[i] = x

\* lib.rs 615-621: the candidates from the i-th on, each pushed when it lies
\* in the config's range and is not yet in the list.
RECURSIVE PushRates(_, _, _)
PushRates(sample_rates, config, i) ==
    IF i > Len(CommonRates) THEN sample_rates
    ELSE LET rate == CommonRates[i]
         IN PushRates(IF /\ config.min_sample_rate <= rate
                         /\ rate <= config.max_sample_rate
                         /\ ~Contains(sample_rates, rate)
                         THEN Append(sample_rates, rate)
                         ELSE sample_rates,
                      config, i + 1)

\* lib.rs 613-635: the loop over the configs from the k-th on, carrying the
\* rates, the buffer bounds and the channel count.
RECURSIVE Probe(_, _, _)
Probe(acc, configs, k) ==
    IF k > Len(configs) THEN acc
    ELSE LET config == configs[k]
             ranged == config.buffer_size # None
         IN Probe([sample_rates |-> PushRates(acc.sample_rates, config, 1),
                   channels |-> Max(acc.channels, config.channels),
                   min_buffer_size |->
                      IF ranged
                         THEN Min(acc.min_buffer_size,
                                  Unwrap(config.buffer_size).min)
                         ELSE acc.min_buffer_size,
                   max_buffer_size |->
                      IF ranged
                         THEN Max(acc.max_buffer_size,
                                  Unwrap(config.buffer_size).max)
                         ELSE acc.max_buffer_size],
                  configs, k + 1)

\* Insertion of x into an ascending list.
RECURSIVE Insert(_, _)
Insert(s, x) ==
    IF s = <<>> THEN <<x>>
    ELSE IF x <= Head(s) THEN <<x>> \o s
    ELSE <<Head(s)>> \o Insert(Tail(s), x)

\* Fault injection: the rates left in the order they were pushed.
Unsorted(s) == s

\* lib.rs 639: sample_rates.sort()
RECURSIVE Sort(_)
Sort(s) == IF s = <<>> THEN <<>> ELSE Insert(Sort(Tail(s)), Head(s))

\* lib.rs 609-612, 613-639, 659-669: the fields of AudioDeviceInfo computed
\* from the configs.
DeviceInfo(configs) ==
    LET probed == Probe([sample_rates |-> <<>>, channels |-> 2,
                         min_buffer_size |-> 64, max_buffer_size |-> 4096],
                        configs, 1)
    IN [probed EXCEPT !.sample_rates = Sort(probed.sample_rates)]

\* The configuration ranges a device may report: sample-rate range, channel
\* count, and a buffer-size range or None for SupportedBufferSize::Unknown.
DeviceConfigs ==
    { [min_sample_rate |-> 44100, max_sample_rate |-> 48000, channels |-> 2,
       buffer_size |-> None],
      [min_sample_rate |-> 48000, max_sample_rate |-> 192000, channels |-> 8,
       buffer_size |-> Some([min |-> 16, max |-> 8192])],
      [min_sample_rate |-> 8000, max_sample_rate |-> 22050, channels |-> 1,
       buffer_size |-> None],
      [min_sample_rate |-> 96000, max_sample_rate |-> 96000, channels |-> 1,
       buffer_size |-> Some([min |-> 128, max |-> 1024])],
      [min_sample_rate |-> 44100, max_sample_rate |-> 96000, channels |-> 2,
       buffer_size |-> Some([min |-> 64, max |-> 4096])],
      [min_sample_rate |-> 88200, max_sample_rate |-> 176400, channels |-> 6,
       buffer_size |-> Some([min |-> 256, max |-> 16384])],
      [min_sample_rate |-> 1, max_sample_rate |-> 384000, channels |-> 2,
       buffer_size |-> None],
      [min_sample_rate |-> 48000, max_sample_rate |-> 48000, channels |-> 4,
       buffer_size |-> Some([min |-> 32, max |-> 512])] }

\* The lists of configs a device reports (none when
\* supported_output_configs fails, lib.rs 603-606).
MaxConfigs == 2
ConfigLists == UNION {[1..n -> DeviceConfigs] : n \in 0..MaxConfigs}

\* A device about to be probed: `output` holds its configs and, once probed,
\* the fields reported for it.
InitDevices ==
    /\ now = 0
    /\ session = DefaultSession
    /\ audio_params = NewAudioParams
    /\ audio_stream = None
    /\ audio_config = DefaultAudioConfig
    /\ config_guard = None
    /\ timer_handle = None
    /\ timer_running = FALSE
    /\ timers = [i \in TimerIds |-> NoTimer]
    /\ \E configs \in ConfigLists : output = [configs |-> configs, info |-> None]
    /\ pc = [t \in Threads |-> "idle"]
    /\ local = [t \in Threads |-> None]
    /\ last = [t \in Threads |-> "none"]
    /\ cmds = 0
    /\ playing_since = None
    /\ cutoffs = 0
    /\ mark = [t \in Threads |-> 0]

GetAudioDevices ==
    /\ output.info = None
    /\ output' = [output EXCEPT !.info = Some(DeviceInfo(output.configs))]
    /\ UNCHANGED <<now, engine, timers, control, history>>

SpecDevices == InitDevices /\ [][GetAudioDevices]_vars

----------------------------------------------------------------------------
\* The locks of AppState (lib.rs 169-176) and of AudioParams (lib.rs 138):
\* every command, the timer thread and the callback as the sequence of lock
\* acquisitions, releases and stream operations it performs, one step each.
\* Which path a command takes depends on data; here every path may be taken.

Locks == {"session", "waveform", "stream", "config", "handle"}

Acq(lock) == [op |-> "acq", lock |-> lock]
Rel(lock) == [op |-> "rel", lock |-> lock]
\* create, play or drop of a stream while the locks held are held
StreamOp == [op |-> "stream", lock |-> "none"]
\* thread::spawn of the timer thread
SpawnOp == [op |-> "spawn", lock |-> "none"]

\* lib.rs 280-290
GetSessionStateLocks == << Acq("session"), Rel("session") >>

\* lib.rs 301-307, 318-324: the session block; the atomic store takes no lock.
SetFrequencyLocks == << Acq("session"), Rel("session") >>
SetAmplitudeLocks == << Acq("session"), Rel("session") >>

\* Fault injection: set_waveform taking the waveform lock inside its session
\* block.
SetWaveformLocksNested ==
    << Acq("session"), Acq("waveform"), Rel("waveform"), Rel("session") >>

\* lib.rs 337-346: the session block, then the waveform block.
SetWaveformLocks ==
    << Acq("session"), Rel("session"), Acq("waveform"), Rel("waveform") >>

\* lib.rs 358-363: start_session returning at its already-playing check.
StartNoOpLocks == << Acq("session"), Rel("session") >>

\* lib.rs 358-373: start_session failing to open its stream.
StartFailLocks ==
    << Acq("session"), Rel("session"),
       Acq("stream"), StreamOp, Rel("stream") >>

\* lib.rs 358-436: start_session to its end, opening a stream.
StartOpenLocks ==
    << Acq("session"), Rel("session"),
       Acq("stream"), StreamOp, Rel("stream"),
       Acq("session"), Rel("session"),
       SpawnOp,
       Acq("handle"), Rel("handle") >>

\* lib.rs 358-436: start_session to its end with a stream already held.
StartHeldLocks ==
    << Acq("session"), Rel("session"),
       Acq("stream"), Rel("stream"),
       Acq("session"), Rel("session"),
       SpawnOp,
       Acq("handle"), Rel("handle") >>

\* lib.rs 449-462
StopLocks ==
    << Acq("session"), Rel("session"), Acq("handle"), Rel("handle") >>

\* lib.rs 679-680
GetAudioConfigLocks == << Acq("config"), Rel("config") >>

\* lib.rs 706-717: set_audio_config while not playing.
SetAudioConfigIdleLocks == << Acq("config"), Rel("config") >>

\* lib.rs 706-736: set_audio_config failing to open the new stream; `?`
\* drops the config guard.
SetAudioConfigFailLocks ==
    << Acq("config"), Rel("config"),
       Acq("stream"), StreamOp, Rel("stream"),
       Acq("config"), StreamOp, Rel("config") >>

\* Fault injection: set_audio_config keeping its first config guard.
SetAudioConfigLocksReacquires ==
    << Acq("config"),
       Acq("stream"), StreamOp, Rel("stream"),
       Acq("config"), StreamOp,
       Acq("stream"), StreamOp, Rel("stream"),
       Rel("config") >>

\* lib.rs 706-740: set_audio_config swapping the stream; the guards of the
\* block are dropped at its end, the stream guard first.
SetAudioConfigLocks ==
    << Acq("config"), Rel("config"),
       Acq("stream"), StreamOp, Rel("stream"),
       Acq("config"), StreamOp,
       Acq("stream"), StreamOp, Rel("stream"),
       Rel("config") >>

CommandLocks ==
    { GetSessionStateLocks, SetFrequencyLocks, SetAmplitudeLocks,
      SetWaveformLocks, StartNoOpLocks, StartFailLocks, StartOpenLocks,
      StartHeldLocks, StopLocks, GetAudioConfigLocks,
      SetAudioConfigIdleLocks, SetAudioConfigFailLocks, SetAudioConfigLocks }

\* lib.rs 398-405: one round of the timer loop without the cutoff, and
\* lib.rs 398-420 with it.
TimerLocks ==
    { << Acq("session"), Rel("session") >>,
      << Acq("session"), Rel("session"), Acq("session"), Rel("session") >> }

\* lib.rs 236-239: the guard of the waveform read is dropped at the end of
\* its statement.
CallbackLocks == << Acq("waveform"), Rel("waveform") >>

\* The timer thread and the callback thread beside the control threads.
TimerProc == 3
CallbackProc == 4
Procs == Threads \cup {TimerProc, CallbackProc}

\* No lock held, no stream opened, no timer spawned: `output` holds the owner
\* of each lock (0 when free) and what each thread has left to do.
InitLocks ==
    /\ now = 0
    /\ session = DefaultSession
    /\ audio_params = NewAudioParams
    /\ audio_stream = None
    /\ audio_config = DefaultAudioConfig
    /\ config_guard = None
    /\ timer_handle = None
    /\ timer_running = FALSE
    /\ timers = [i \in TimerIds |-> NoTimer]
    /\ output = [owner |-> [l \in Locks |-> 0],
                 todo |-> [p \in Procs |-> <<>>],
                 opened |-> FALSE, spawned |-> FALSE]
    /\ pc = [t \in Threads |-> "idle"]
    /\ local = [t \in Threads |-> None]
    /\ last = [t \in Threads |-> "none"]
    /\ cmds = 0
    /\ playing_since = None
    /\ cutoffs = 0
    /\ mark = [t \in Threads |-> 0]

\* Control thread t enters a command.
LockCall(t) ==
    /\ Ready(t)
    /\ \E script \in CommandLocks :
          output' = [output EXCEPT !.todo[t] = script]
    /\ Enter(t, "locks")
    /\ UNCHANGED <<now, engine, timers, local, history>>

\* The device starts an invocation of the callback of an open stream.
CallbackInvoked ==
    /\ output.opened
    /\ output.todo[CallbackProc] = <<>>
    /\ output' = [output EXCEPT !.todo[CallbackProc] = CallbackLocks]
    /\ UNCHANGED <<now, engine, timers, control, history>>

\* The spawned timer thread goes round its loop.
TimerRound ==
    /\ output.spawned
    /\ output.todo[TimerProc] = <<>>
    /\ \E script \in TimerLocks :
          output' = [output EXCEPT !.todo[TimerProc] = script]
    /\ UNCHANGED <<now, engine, timers, control, history>>

\* Thread p can take its next step: Mutex::lock blocks while the lock has an
\* owner, the calling thread included.
CanStep(p) ==
    /\ output.todo[p] # <<>>
    /\ Head(output.todo[p]).op = "acq" =>
          output.owner[Head(output.todo[p]).lock] = 0

\* Thread p takes its next step.
LockStep(p) ==
    /\ CanStep(p)
    /\ LET step == Head(output.todo[p])
           rest == Tail(output.todo[p])
       IN /\ output' =
               [output EXCEPT
                  !.todo[p] = rest,
                  !.owner = IF step.op = "acq"
                               THEN [output.owner EXCEPT ![step.lock] = p]
                            ELSE IF step.op = "rel"
                               THEN [output.owner EXCEPT ![step.lock] = 0]
                            ELSE output.owner,
                  !.opened = output.opened \/ step.op = "stream",
                  !.spawned = output.spawned \/ step.op = "spawn"]
          /\ IF p \in Threads /\ rest = <<>>
                THEN Return(p, "returned")
                ELSE UNCHANGED <<pc, last, cmds>>
    /\ UNCHANGED <<now, engine, timers, local, history>>

NextLocks ==
    \/ \E t \in Threads : LockCall(t)
    \/ \E p \in Procs : LockStep(p)
    \/ CallbackInvoked
    \/ TimerRound

SpecLocks == InitLocks /\ [][NextLocks]_vars

----------------------------------------------------------------------------
\* The blab-core AudioEngine (audio/src/engine.rs) behind its C interface
\* (ffi/src/lib.rs).  `output` holds the engine: stream is its stream field,
\* a stream being the number of the build that made it; built counts the
\* streams built; live is the set of streams built and not yet dropped.  The
\* functions take &mut of the engine, so calls come one after the other.

\* The pointers the C functions are called with.
BlabPointers == {"null", "engine"}

\* AudioEngine::new: no stream.
InitBlab ==
    /\ now = 0
    /\ session = DefaultSession
    /\ audio_params = NewAudioParams
    /\ audio_stream = None
    /\ audio_config = DefaultAudioConfig
    /\ config_guard = None
    /\ timer_handle = None
    /\ timer_running = FALSE
    /\ timers = [i \in TimerIds |-> NoTimer]
    /\ output = [stream |-> None, built |-> 0, live |-> {}]
    /\ pc = [t \in Threads |-> "idle"]
    /\ local = [t \in Threads |-> None]
    /\ last = [t \in Threads |-> "none"]
    /\ cmds = 0
    /\ playing_since = None
    /\ cutoffs = 0
    /\ mark = [t \in Threads |-> 0]

\* The streams a value of Option<Stream> owns.
Owned(o) == IF o = None THEN {} ELSE {Unwrap(o)}

\* blab_audio_engine_start, ffi/src/lib.rs 77-90: false for a null pointer, else
\* AudioEngine::start.
BlabAudioEngineStart(t) ==
    /\ Ready(t)
    /\ \E ptr \in BlabPointers :
          \/ /\ ptr = "null"
             /\ Call(t, "null")
          \/ /\ ptr = "engine"
             /\ Enter(t, "blab_device")
    /\ UNCHANGED <<now, engine, timers, output, local, history>>

\* engine.rs 29-32: the default output device, or the error.
BlabDevice(t) ==
    /\ pc[t] = "blab_device"
    /\ \/ Goto(t, "blab_build")
       \/ Return(t, "false")
    /\ UNCHANGED <<now, engine, timers, output, local, history>>

\* engine.rs 42-51: build_output_stream, or the error.
BlabBuild(t) ==
    /\ pc[t] = "blab_build"
    /\ \/ /\ local' = [local EXCEPT ![t] = Some(output.built + 1)]
          /\ output' = [output EXCEPT !.built = @ + 1,
                                      !.live = @ \cup {output.built + 1}]
          /\ Goto(t, "blab_play")
       \/ /\ UNCHANGED <<local, output>>
          /\ Return(t, "false")
    /\ UNCHANGED <<now, engine, timers, history>>

\* engine.rs 53: stream.play(); on its error the stream just built is dropped
\* with the frame.
BlabPlay(t) ==
    /\ pc[t] = "blab_play"
    /\ \/ /\ UNCHANGED <<local, output>>
          /\ Goto(t, "blab_store")
       \/ /\ local' = [local EXCEPT ![t] = None]
          /\ output' = [output EXCEPT !.live = @ \ Owned(local[t])]
          /\ Return(t, "false")
    /\ UNCHANGED <<now, engine, timers, history>>

\* Fault injection: the stream replaced never dropped.
BlabStoreLeaks(t) ==
    /\ pc[t] = "blab_store"
    /\ output' = [output EXCEPT !.stream = local[t]]
    /\ local' = [local EXCEPT ![t] = None]
    /\ Return(t, "true")
    /\ UNCHANGED <<now, engine, timers, history>>

\* engine.rs 54-56: self.stream = Some(stream) drops the stream held before.
BlabStore(t) ==
    /\ pc[t] = "blab_store"
    /\ output' = [output EXCEPT !.stream = local[t],
                                !.live = @ \ Owned(output.stream)]
    /\ local' = [local EXCEPT ![t] = None]
    /\ Return(t, "true")
    /\ UNCHANGED <<now, engine, timers, history>>

\* blab_audio_engine_stop, ffi/src/lib.rs 97-102, and AudioEngine::stop, engine.rs
\* 60-62: self.stream = None drops the stream held.
BlabAudioEngineStop(t) ==
    /\ Ready(t)
    /\ \E ptr \in BlabPointers :
          \/ /\ ptr = "null"
             /\ UNCHANGED output
             /\ Call(t, "null")
          \/ /\ ptr = "engine"
             /\ output' = [output EXCEPT !.stream = None,
                                         !.live = @ \ Owned(output.stream)]
             /\ Call(t, "stop")
    /\ UNCHANGED <<now, engine, timers, local, history>>

NextBlab ==
    \/ BlabAudioEngineStart(1)
    \/ BlabDevice(1)
    \/ BlabBuild(1)
    \/ BlabPlay(1)
    \/ BlabStore(1)
    \/ BlabAudioEngineStop(1)

SpecBlab == InitBlab /\ [][NextBlab]_vars

----------------------------------------------------------------------------
\* Properties of the setters

\* The steps in which the control thread calls set_frequency, set_amplitude,
\* set_waveform and set_audio_config.
SetFrequencyStep ==
    /\ cmds' = cmds + 1
    /\ \/ pc'[1] = "frequency_params"
       \/ pc'[1] = "idle" /\ last'[1] = "set_frequency_err"
SetAmplitudeStep == cmds' = cmds + 1 /\ pc'[1] = "amplitude_params"
SetWaveformStep ==
    /\ cmds' = cmds + 1
    /\ \/ pc'[1] = "waveform_params"
       \/ pc'[1] = "idle" /\ last'[1] = "set_waveform_err"
SetAudioConfigStep ==
    /\ cmds' = cmds + 1
    /\ \/ pc'[1] = "config_read"
       \/ pc'[1] = "idle" /\ last'[1] \in {"set_config_err", "set_config_panic"}

\* C11: for every f with 1 <= f <= 60, set_frequency(f) succeeds, and the
\* frequency of the session and of the parameter channel are then f.
C11_SetFrequencyStores ==
    /\ [][\A hz \in FrequencyDomain :
             (/\ SetFrequencyStep /\ SetFrequency(1, hz)
              /\ 1000 <= hz /\ hz <= 60000) =>
                /\ pc'[1] = "frequency_params"
                /\ local'[1] = Some(hz)
                /\ session'.current_frequency_hz = hz]_vars
    /\ [][(pc[1] = "frequency_params" /\ pc'[1] # pc[1]) =>
             /\ pc'[1] = "idle" /\ last'[1] = "set_frequency_ok"
             /\ session'.current_frequency_hz = Unwrap(local[1])
             /\ audio_params'.frequency_hz = Unwrap(local[1])]_vars
    /\ [](pc[1] = "idle" /\ last[1] = "set_frequency_ok" =>
             session.current_frequency_hz = audio_params.frequency_hz)

\* set_frequency(60) has returned Ok.
C11_Witness ==
    /\ pc[1] = "idle" /\ last[1] = "set_frequency_ok"
    /\ session.current_frequency_hz = 60000
    /\ audio_params.frequency_hz = 60000

\* C12: for every f outside [1, 60], set_frequency(f) returns an error and
\* leaves every field of the session and of the parameter channel as it was.
C12_SetFrequencyRejects ==
    [][\A hz \in FrequencyDomain :
          (/\ SetFrequencyStep /\ SetFrequency(1, hz)
           /\ (hz < 1000 \/ hz > 60000)) =>
             /\ pc'[1] = "idle" /\ last'[1] = "set_frequency_err"
             /\ UNCHANGED <<session, audio_params>>]_vars

\* set_frequency has failed after an earlier call had stored 25.5 Hz.
C12_Witness ==
    /\ pc[1] = "idle" /\ last[1] = "set_frequency_err"
    /\ session.current_frequency_hz = 25500
    /\ audio_params.frequency_hz = 25500

\* clamp(a, 0, MAX_AMPLITUDE)
Clamped(a) == IF a < 0 THEN 0 ELSE IF a > MAX_AMPLITUDE THEN MAX_AMPLITUDE ELSE a

\* C13: for every a, set_amplitude(a) succeeds and stores
\* clamp(a, 0, MAX_AMPLITUDE) in the session and in the parameter channel;
\* the amplitude of the parameter channel is always within [0, MAX_AMPLITUDE].
C13_SetAmplitudeClamps ==
    /\ [][\A a \in AmplitudeDomain :
             (SetAmplitudeStep /\ SetAmplitude(1, a)) =>
                /\ pc'[1] = "amplitude_params"
                /\ local'[1] = Some(Clamped(a))
                /\ session'.amplitude = Clamped(a)]_vars
    /\ [][(pc[1] = "amplitude_params" /\ pc'[1] # pc[1]) =>
             /\ pc'[1] = "idle" /\ last'[1] = "set_amplitude_ok"
             /\ session'.amplitude = Unwrap(local[1])
             /\ audio_params'.amplitude = Unwrap(local[1])]_vars
    /\ [](0 <= audio_params.amplitude /\ audio_params.amplitude <= MAX_AMPLITUDE)

\* set_amplitude has returned with the amplitude clamped to MAX_AMPLITUDE
\* after an earlier call.
C13_Witness ==
    /\ pc[1] = "idle" /\ last[1] = "set_amplitude_ok" /\ cmds >= 2
    /\ session.amplitude = MAX_AMPLITUDE
    /\ audio_params.amplitude = MAX_AMPLITUDE

\* The waveform kind a name denotes when its case is ignored, None when it
\* denotes none.
Denotes(name) ==
    CASE name \in {"sine", "Sine"} -> Some("Sine")
      [] name \in {"SQUARE"} -> Some("Square")
      [] name \in {"triangle"} -> Some("Triangle")
      [] name \in {"SawTooth"} -> Some("Sawtooth")
      [] OTHER -> None

\* C14: set_waveform(name) fails, leaving the session and the parameter
\* channel as they were, exactly when name denotes none of sine, square,
\* triangle, sawtooth with its case ignored; when it succeeds the parameter
\* channel holds the kind name denotes and the session reports a waveform
\* that denotes the same kind.
C14_SetWaveform ==
    /\ [][\A name \in WaveformDomain :
             (SetWaveformStep /\ SetWaveform(1, name)) =>
                IF Denotes(name) = None
                   THEN /\ pc'[1] = "idle" /\ last'[1] = "set_waveform_err"
                        /\ UNCHANGED <<session, audio_params>>
                   ELSE /\ pc'[1] = "waveform_params"
                        /\ local'[1] = Denotes(name)
                        /\ Denotes(session'.waveform) = Denotes(name)]_vars
    /\ [][(pc[1] = "waveform_params" /\ pc'[1] # pc[1]) =>
             /\ pc'[1] = "idle" /\ last'[1] = "set_waveform_ok"
             /\ audio_params'.waveform = Unwrap(local[1])
             /\ Denotes(session'.waveform) = local[1]]_vars
    /\ [](pc[1] = "idle" /\ last[1] = "set_waveform_ok" =>
             Denotes(session.waveform) = Some(audio_params.waveform))

\* set_waveform("SQUARE") has returned Ok.
C14_Witness ==
    /\ pc[1] = "idle" /\ last[1] = "set_waveform_ok"
    /\ session.waveform = "SQUARE"
    /\ audio_params.waveform = "Square"

\* The sample rates of the allow-list and the powers of two of [32, 8192].
AllowedRates == {44100, 48000, 88200, 96000, 176400, 192000}
AllowedSizes == {32, 64, 128, 256, 512, 1024, 2048, 4096, 8192}

\* C15: a set_audio_config call whose sample_rate is not in the allow-list
\* or whose buffer_size is not a power of two in [32, 8192] fails and leaves
\* the stored AudioConfig, the held stream and the session as they were,
\* whatever its other arguments are.
C15_SetAudioConfigRejects ==
    [][\A d \in DeviceDomain, r \in RateDomain, b \in SizeDomain :
          (/\ SetAudioConfigStep /\ SetAudioConfig(1, d, r, b)
           /\ \/ r # None /\ Unwrap(r) \notin AllowedRates
              \/ b # None /\ Unwrap(b) \notin AllowedSizes) =>
             /\ pc'[1] = "idle" /\ last'[1] = "set_config_err"
             /\ UNCHANGED <<audio_config, audio_stream, session>>]_vars

\* set_audio_config has failed with a stream held, after an earlier call had
\* changed the stored config.
C15_Witness ==
    /\ pc[1] = "idle" /\ last[1] = "set_config_err"
    /\ audio_stream # None
    /\ audio_config.device_id # None
    /\ audio_config.sample_rate = 192000

\* C16: after any sequence of set_audio_config calls the stored AudioConfig
\* has a sample_rate of the allow-list and a buffer_size that is a power of
\* two within [32, 8192], and no call underflows in size & (size - 1).
C16_StoredConfigValid ==
    /\ audio_config.sample_rate \in AllowedRates
    /\ audio_config.buffer_size \in AllowedSizes
    /\ last[1] # "set_config_panic"

\* set_audio_config has been called with buffer_size 0 and then with 8192.
C16_Witness ==
    /\ pc[1] = "idle" /\ last[1] = "set_config_ok" /\ cmds >= 2
    /\ audio_config.buffer_size = 8192
    /\ audio_config.sample_rate = 192000

----------------------------------------------------------------------------
\* Properties of the output stream

\* The streams that exist (created and not dropped): the one in the stream
\* slot and those a set_audio_config call has built and not yet stored.
LiveStreams ==
    (IF audio_stream # None THEN 1 ELSE 0)
    + Cardinality({t \in Threads : local[t] # None /\ pc[t] \in {"config_store", "idle"}})

\* C17: when set_audio_config is called while playing and opening the new
\* stream fails, the call returns an error and the engine holds no stream
\* (the prior one was dropped, lib.rs 723-728) and none half built; a call
\* that fails before that leaves the prior stream in place.
C17_FailedReopen ==
    /\ [][(pc[1] = "config_create" /\ pc'[1] = "idle") =>
             /\ last'[1] = "set_config_err"
             /\ audio_stream' = None
             /\ local'[1] = None
             /\ LiveStreams' = 0]_vars
    /\ [][(SetAudioConfigStep /\ pc'[1] = "idle") =>
             /\ UNCHANGED audio_stream
             /\ local'[1] = None]_vars
    /\ [](pc[1] = "idle" /\ last[1] = "set_config_err" => LiveStreams <= 1)

\* set_audio_config has failed to open the stream of a device that does not
\* exist while the shared playing flag was set.
C17_Witness ==
    /\ pc[1] = "idle" /\ last[1] = "set_config_err"
    /\ audio_params.is_playing
    /\ audio_config.device_id = Some("ALSA:NonexistentCard")
    /\ audio_stream = None

\* C18: at no point do two output streams of the engine exist at the same
\* time, under any interleaving of concurrent set_audio_config,
\* start_session and stop_session calls.
C18_OneStream == LiveStreams <= 1

----------------------------------------------------------------------------
\* Properties of the callback and of sample generation

\* The callback has returned from a buffer.
BufferDone == output.pc = "frequency" /\ output.buffers > 0

\* C19: every callback invocation that reads the playing flag as false writes
\* 0.0 to every sample of every channel of its buffer, whatever the
\* frequency, amplitude, waveform and phase are.
C19_MutedBufferSilent ==
    (BufferDone /\ ~output.is_playing) =>
       /\ Len(output.data) = output.frames
       /\ \A k \in 1..Len(output.data) :
             /\ Len(output.data[k]) = output.channels
             /\ \A c \in 1..Len(output.data[k]) : output.data[k][c] = 0

\* A muted buffer of three frames has been written with the amplitude at its
\* maximum and a square wave selected.
C19_Witness ==
    /\ BufferDone /\ ~output.is_playing
    /\ output.frames = 3 /\ Len(output.data) = 3
    /\ output.amplitude = MAX_AMPLITUDE /\ output.waveform = "Square"
    /\ output.frequency = 60000

\* The sample of frame k of the buffer the callback has filled, computed
\* from the values it read at its start.
SampleOfRead(k) ==
    IF output.is_playing
       THEN GenerateSample(output.waveform,
                           PhaseAfter(output.start,
                                      PhaseIncrement(output.frequency,
                                                     output.sample_rate),
                                      k - 1),
                           output.amplitude)
       ELSE 0

\* C25: each callback invocation reads frequency, amplitude, waveform and the
\* playing flag once at its start, so every sample of its buffer comes from
\* those values even when a control thread writes during the buffer; and an
\* invocation that begins after playing=false was stored writes only 0.0.
C25_ReadOnce ==
    BufferDone =>
       /\ \A k \in 1..Len(output.data) : \A c \in 1..Len(output.data[k]) :
             output.data[k][c] = SampleOfRead(k)
       /\ ~output.began_playing =>
             \A k \in 1..Len(output.data) : \A c \in 1..Len(output.data[k]) :
                output.data[k][c] = 0

\* A buffer has been written with sound from the amplitude read at its start
\* while the control thread has stored another amplitude and stopped the
\* session in the meantime.
C25_Witness ==
    /\ BufferDone
    /\ output.is_playing /\ ~audio_params.is_playing
    /\ output.amplitude = 800 /\ audio_params.amplitude = 300
    /\ Len(output.data) = 3 /\ output.data[1][1] = 800

\* C26: the phase a stream's callback carries advances by
\* frequency / sample_rate for every frame of every buffer whether the
\* playing flag was read true or false: after a buffer of n frames it is the
\* phase n advances from where the buffer began, so the same in a muted as
\* in a playing run from the same phase and frequency.
C26_PhaseAdvances ==
    BufferDone =>
       output.phase = PhaseAfter(output.start,
                                 PhaseIncrement(output.frequency,
                                                output.sample_rate),
                                 output.frames)

\* A muted buffer of three frames has moved the phase.
C26_Witness ==
    /\ BufferDone /\ ~output.is_playing
    /\ output.frames = 3
    /\ output.frequency = 60000 /\ output.sample_rate = NativeSampleRate
    /\ output.start = 500000 /\ output.phase = 503750

\* C27: for every frequency set_frequency can store and every allowed sample
\* rate the callback's phase is within [0, 1) before every call of
\* generate_sample and between buffers: one subtraction of 1.0 per frame
\* is enough to wrap.
C27_PhaseInRange ==
    /\ output.phase >= 0 /\ output.phase < PhaseOne
    /\ \A k \in 0..output.frames :
          LET phase == PhaseAfter(output.start,
                                  PhaseIncrement(output.frequency,
                                                 output.sample_rate), k)
          IN phase >= 0 /\ phase < PhaseOne

\* A buffer of 60 Hz has carried the phase over the end of a cycle.
C27_Witness ==
    /\ BufferDone
    /\ output.frequency = 60000
    /\ output.start = 998750
    /\ output.phase < output.start

\* C28: for an amplitude a in [0, 0.8] and a phase p in [0, 1),
\* generate_sample returns +a for square when p < 0.5 and -a otherwise;
\* a*(4p-1) for triangle when p < 0.5 and a*(3-4p) otherwise, so +a at
\* p = 0.5 from both sides and -a at p = 0; a*(2p-1) for sawtooth; and every
\* result lies in [-a, a].
C28_Waveforms ==
    (/\ output.sample # None
     /\ output.amplitude >= 0 /\ output.amplitude <= MAX_AMPLITUDE) =>
       LET a == output.amplitude
           p == output.phase
           sample == Unwrap(output.sample)
       IN /\ output.waveform = "Square" =>
                sample = IF 2 * p < PhaseOne THEN a ELSE 0 - a
          /\ output.waveform = "Triangle" =>
                /\ 2 * p < PhaseOne =>
                      sample = (a * (4 * p - PhaseOne)) \div PhaseOne
                /\ 2 * p >= PhaseOne =>
                      sample = (a * (3 * PhaseOne - 4 * p)) \div PhaseOne
                /\ 2 * p = PhaseOne => sample = a
                /\ 2 * p = PhaseOne - 2 => a - sample <= 1
                /\ p = 0 => sample = 0 - a
          /\ output.waveform = "Sawtooth" =>
                sample = (a * (2 * p - PhaseOne)) \div PhaseOne
          /\ sample <= a /\ sample >= 0 - a

\* The triangle has been sampled just below its peak at full amplitude.
C28_Witness ==
    /\ output.sample = Some(799)
    /\ output.waveform = "Triangle"
    /\ output.phase = 499999
    /\ output.amplitude = MAX_AMPLITUDE

\* C20: for every waveform kind, every phase in [0, 1) and every amplitude
\* argument, negative ones and ones above MAX_AMPLITUDE included, the sample
\* generate_sample returns has absolute value at most MAX_AMPLITUDE.
C20_SampleBounded ==
    output.sample # None =>
       /\ Unwrap(output.sample) <= MAX_AMPLITUDE
       /\ Unwrap(output.sample) >= 0 - MAX_AMPLITUDE

----------------------------------------------------------------------------
\* Properties of opening a stream and of device enumeration

\* The selector s names host `host` and device `name`: it has a ':', the text
\* before the first one is host and the text after it is name.
Names(s, host, name) ==
    \E i \in 1..Len(s) :
       /\ s[i] = ":"
       /\ \A j \in 1..(i - 1) : s[j] # ":"
       /\ host = SubSeq(s, 1, i - 1)
       /\ name = SubSeq(s, i + 1, Len(s))

\* The selector s names an output device that exists on an available host.
Matches(s) ==
    \E h \in AvailableHosts : \E d \in HostDevices(h) :
       d.named /\ Names(s, h, d.name)

\* C21: opening a stream for a config whose device selector is None uses the
\* platform default device; for a composite selector the open fails with an
\* error and creates no stream when the selector has no ':', when its host
\* part matches no available host, or when its name part matches no output
\* device of that host.
C21_DeviceResolution ==
    output.result # "pending" =>
       /\ (audio_config.device_id = None /\ output.stream # None) =>
             /\ Unwrap(output.stream).host = DefaultOutputDevice.host
             /\ Unwrap(output.stream).name = DefaultOutputDevice.name
       /\ (audio_config.device_id # None
           /\ ~Matches(Unwrap(audio_config.device_id))) =>
             /\ output.result # "ok"
             /\ output.stream = None

\* The open of a selector whose name part is a device of another host than
\* the one it names has failed.
C21_Witness ==
    /\ audio_config.device_id = Some(<<"J", ":", "h">>)
    /\ output.result = "Device not found"
    /\ output.stream = None

\* C23: the sample rate of the stream format handed to the device equals the
\* config.sample_rate the callback computes its phase increment from.
C23_FormatRateIsConfigRate ==
    output.stream # None =>
       Unwrap(output.stream).format_rate = Unwrap(output.stream).phase_rate

\* The candidate rates that lie in the range of at least one of the configs.
SupportedRates(configs) ==
    {rate \in SampleRates :
        \E k \in 1..Len(configs) :
           /\ configs[k].min_sample_rate <= rate
           /\ rate <= configs[k].max_sample_rate}

\* C22: for every device get_audio_devices returns, sample_rates is strictly
\* ascending, so without duplicates, and holds exactly the candidate rates
\* that lie inside the sample-rate range of at least one of the device's
\* supported configurations.
C22_SampleRates ==
    output.info # None =>
       LET sample_rates == Unwrap(output.info).sample_rates
       IN /\ \A i \in 1..(Len(sample_rates) - 1) :
                sample_rates[i] < sample_rates[i + 1]
          /\ {sample_rates[i] : i \in 1..Len(sample_rates)}
                = SupportedRates(output.configs)

\* A device has been probed whose second config adds a rate below those of
\* its first and repeats one of them.
C22_Witness ==
    /\ output.info # None
    /\ Len(output.configs) = 2
    /\ output.configs[1].min_sample_rate = 48000
    /\ output.configs[2].min_sample_rate = 44100
    /\ output.configs[2].max_sample_rate = 48000
    /\ Unwrap(output.info).sample_rates[1] = 44100

\* The buffer-size ranges the configs report.
ReportedRanges(configs) ==
    {Unwrap(configs[k].buffer_size) :
        k \in {j \in 1..Len(configs) : configs[j].buffer_size # None}}

\* C24: min_buffer_size and max_buffer_size are the smallest minimum and the
\* largest maximum buffer size the device's configurations report, and 64
\* and 4096 when none reports a range; channels is the largest channel count
\* over the device's configurations.
C24_BufferBoundsAndChannels ==
    output.info # None =>
       LET info == Unwrap(output.info)
           ranges == ReportedRanges(output.configs)
       IN /\ ranges # {} =>
                /\ \E b \in ranges : info.min_buffer_size = b.min
                /\ \A b \in ranges : info.min_buffer_size <= b.min
                /\ \E b \in ranges : info.max_buffer_size = b.max
                /\ \A b \in ranges : info.max_buffer_size >= b.max
          /\ ranges = {} =>
                info.min_buffer_size = 64 /\ info.max_buffer_size = 4096
          /\ Len(output.configs) > 0 =>
                /\ \E k \in 1..Len(output.configs) :
                      info.channels = output.configs[k].channels
                /\ \A k \in 1..Len(output.configs) :
                      info.channels >= output.configs[k].channels

----------------------------------------------------------------------------
\* Properties of start_session's stream and of the two playing flags

Quiescent ==
    /\ \A t \in Threads : pc[t] = "idle"
    /\ \A i \in TimerIds : timers[i].pc \in {"none", "loop", "sleep"}

\* C30: whenever no command and no timer cutoff step is in progress, the
\* playing flag in the parameter channel equals is_playing in the session
\* state, under every interleaving of concurrent start_session and
\* stop_session calls and of the timer cutoff.
C30_FlagsAgree ==
    Quiescent => audio_params.is_playing = session.is_playing

----------------------------------------------------------------------------
\* Properties of the engine as a whole

\* C31: after any set of concurrent set_frequency, set_amplitude and
\* set_waveform calls has completed, the frequency, the amplitude and the
\* waveform in the session state equal those the parameter channel holds.
C31_SettersAgree ==
    (\A t \in Threads : pc[t] = "idle") =>
       /\ session.current_frequency_hz = audio_params.frequency_hz
       /\ session.amplitude = audio_params.amplitude
       /\ FromStr(session.waveform) = Some(audio_params.waveform)

\* The locks thread p holds.
Held(p) == {l \in Locks : output.owner[l] = p}

\* C32: the only lock the audio callback acquires is the waveform lock; a
\* control thread that holds the waveform lock holds no other lock, performs
\* no stream operation while it holds it and releases it in its next step.
C32_WaveformLock ==
    /\ Held(CallbackProc) \subseteq {"waveform"}
    /\ \A i \in 1..Len(output.todo[CallbackProc]) :
          output.todo[CallbackProc][i].lock = "waveform"
    /\ \A t \in Threads :
          "waveform" \in Held(t) =>
             /\ Held(t) = {"waveform"}
             /\ Head(output.todo[t]) = Rel("waveform")

\* The callback is waiting for the waveform lock that a control thread holds.
C32_Witness ==
    /\ output.owner["waveform"] = 1
    /\ output.todo[CallbackProc] = CallbackLocks

\* Thread p waits for a lock that thread q holds.
WaitsFor(p, q) ==
    /\ output.todo[p] # <<>>
    /\ Head(output.todo[p]).op = "acq"
    /\ output.owner[Head(output.todo[p]).lock] = q

\* Thread p waits, through n or fewer threads each waiting for the next, for
\* thread q.
RECURSIVE WaitsThrough(_, _, _)
WaitsThrough(p, q, n) ==
    \/ WaitsFor(p, q)
    \/ /\ n > 1
       /\ \E r \in Procs : WaitsFor(p, r) /\ WaitsThrough(r, q, n - 1)

\* C38: no interleaving of the commands, the timer thread and the callback
\* reaches a deadlock: no thread waits for a lock in a cycle of waiting
\* threads, and none waits for a lock it holds itself.
C38_NoDeadlock ==
    /\ \A p \in Procs : ~WaitsThrough(p, p, Cardinality(Procs))
    /\ (\E p \in Procs : output.todo[p] # <<>>) => \E p \in Procs : CanStep(p)

\* A control thread inside set_audio_config holds the config lock and waits
\* for the stream lock, which the other control thread holds.
C38_Witness ==
    /\ "config" \in Held(1)
    /\ WaitsFor(1, 2)
    /\ Head(output.todo[1]) = Acq("stream")

\* C33: when start_session fails because the stream cannot be created or
\* started, it returns an error, and neither of its steps changes the
\* session state, the shared playing flag, the timer_running flag, the
\* stream slot or the timer handle, or spawns a timer thread.
C33_FailedStart ==
    [][(\/ pc[1] = "idle" /\ pc'[1] = "start_stream"
        \/ pc[1] = "start_stream" /\ pc'[1] = "idle") =>
          /\ pc'[1] = "idle" => last'[1] = "start_err"
          /\ UNCHANGED <<session, audio_params, timer_running, audio_stream,
                         timer_handle, timers>>]_vars

\* start_session has failed on its stream: no stream is held, no session
\* plays and no timer thread is alive.
C33_Witness ==
    /\ pc[1] = "idle" /\ last[1] = "start_err"
    /\ audio_stream = None
    /\ ~session.is_playing /\ ~audio_params.is_playing /\ ~timer_running
    /\ AliveTimers = {}

\* C34: whenever no command is in progress and the session state reports
\* is_playing = true, the engine holds an open output stream.
C34_PlayingHasStream ==
    (pc[1] = "idle" /\ session.is_playing) => audio_stream # None

\* C35: whenever no command is in progress and the shared playing flag is
\* true, timer_running is true and a timer thread is alive.
C35_PlayingHasTimer ==
    ((\A t \in Threads : pc[t] = "idle") /\ audio_params.is_playing) =>
       /\ timer_running
       /\ AliveTimers # {}

\* The device the stored AudioConfig names.
ConfiguredDevice ==
    IF audio_config.device_id = None THEN "default"
    ELSE Unwrap(audio_config.device_id)

\* C36: whenever the engine holds a stream and no command is in progress,
\* that stream is bound to the device the stored AudioConfig names (the
\* default device when device_id is None).
C36_StreamOnConfiguredDevice ==
    (pc[1] = "idle" /\ audio_stream # None) =>
       Unwrap(audio_stream).device = ConfiguredDevice

\* C37: a set_audio_config call that returns an error, for any reason,
\* leaves the stored AudioConfig equal to its value before the call (here
\* for the first call made, the config before it being the default one).
C37_ErrorKeepsConfig ==
    (pc[1] = "idle" /\ cmds = 1 /\ last[1] = "set_config_err") =>
       audio_config = DefaultAudioConfig

\* C39: every device id get_audio_devices returns (host name, ':', the name
\* the device is listed under), given as the device selector of a config,
\* resolves in create_audio_stream_with_config to a device of that host with
\* that name: the lookup finds a device, and a stream that is opened is on
\* that host and device.
C39_ListedIdsResolve ==
    \A h \in AvailableHosts : \A d \in HostDevices(h) :
       (audio_config.device_id = Some(DeviceId(d))
        /\ output.result # "pending") =>
          /\ output.result \in {"ok", "Failed to build output stream"}
          /\ output.stream # None =>
                /\ Unwrap(output.stream).host = d.host
                /\ Unwrap(output.stream).name = d.name

\* C40: for the blab-core AudioEngine, after any sequence of start and stop
\* calls the engine holds at most one stream and no other stream is alive;
\* stop leaves it with none; a successful start leaves it with exactly the
\* stream it built, the previous one released; a failed start, and every
\* step of a start before its last, leaves the stream held before in place.
C40_OneStream ==
    [][/\ pc'[1] = "idle" =>
             /\ Cardinality(output'.live) <= 1
             /\ output'.live = Owned(output'.stream)
       /\ (cmds' # cmds /\ last'[1] = "stop") => output'.stream = None
       /\ (pc[1] # "idle" /\ pc'[1] = "idle" /\ last'[1] = "true") =>
             /\ output'.stream = Some(output'.built)
             /\ output'.built \notin Owned(output.stream)
             /\ Owned(output.stream) \cap output'.live = {}
       /\ (pc[1] # "idle" /\ ~(pc'[1] = "idle" /\ last'[1] = "true")) =>
             output'.stream = output.stream]_vars

\* A start has failed at play with a stream held from an earlier start: that
\* stream is still the one held, and the one just built is gone.
C40_Witness ==
    /\ pc[1] = "idle" /\ last[1] = "false"
    /\ output.built = 2
    /\ output.stream = Some(1)
    /\ output.live = {1}

====
